---------------------------- MODULE Spec2Model ----------------------------
(***************************************************************************)
(* McpStdioClient (mcp-server/scripts/mcp_smoke.py): the newline-delimited *)
(* JSON-RPC client that owns one child process.  The model has the request *)
(* threads (request()), the stdout reader (_read_stdout), the stderr       *)
(* reader (_read_stderr), a thread calling close(), and the child process  *)
(* as the environment: it may emit any line on stdout or stderr and may    *)
(* exit at any time.                                                       *)
(*                                                                         *)
(* Steps are the points where a thread touches shared state (the id        *)
(* counter, the correlation table under its lock, a response queue, a      *)
(* pipe, the process status).  Thread-local work is folded into the        *)
(* shared step that follows it.                                            *)
(***************************************************************************)
EXTENDS Integers, Sequences, FiniteSets, TLC

\* ------------------------------------------------------------------ bounds
\* Requests are entered only while _next_id <= MaxId.
MaxId == 2
\* Calls of notify().
MaxNotifies == 2
\* Sessions one MCPClient opens, and calls of its methods.
MaxSessions == 2
MaxOps == 6
\* Tools in a server's catalog, and the names they may bear.
MaxTools == 2
MaxNames == 3
\* The turn budget of a conversation, and the tool calls of one response.
MaxTurns == 2
MaxBlocks == 2
\* The conditions, tasks and runs per task of a harness run, and the runs
\* that may fail in it.
MaxConditions == 2
MaxTasks == 2
MaxRuns == 2
MaxFailures == 2
\* The Turns recorded in a TaskMetrics.
MaxRecorded == 2
\* Lines the stdout pipe buffers between the child and the reader.
MaxPipe == 1
\* Diagnostic (stderr) lines the child emits in all.
MaxStderr == 51
\* Calls of close().
MaxCloses == 2
\* Lines typed into the repl command.
MaxLines == 2

\* ------------------------------------------------------- program constants
\* _ensure_running takes at most this many lines from the stderr queue.
StderrTailMax == 50

Threads == {"t1", "t2"}
OneThread == {"t1"}
\* The thread that calls notify(), and all the threads that write to stdin.
Notifier == "n1"
Writers == Threads \cup {Notifier}
\* The method each thread asks for (_tools_list, _tool_call).
MethodOf(t) == IF t = "t1" THEN "tools/list" ELSE "tools/call"
RespIds == 1 .. MaxId

\* ------------------------------------------------------------ the messages
\* One stdout line, by what json.loads and the reader make of it:
\*   blank    empty after strip()
\*   nonjson  json.loads raises
\*   scalar   valid JSON that is not an object (42, "x", [1], null)
\*   notif    an object with no "id" (or "id": null)
\*   badid    an object whose id is not an int (a string, a float)
\*   boolid   an object whose id is true: a bool is an int in Python, and
\*            True == 1 as a dict key
\*   resp     an object with an integer id, carrying a result or an error
NoMsg == [k |-> "none", id |-> 0, body |-> "none"]
NoiseLines == {[k |-> kk, id |-> 0, body |-> "none"] :
                 kk \in {"blank", "nonjson", "scalar", "notif", "badid"}}
RespLines == {[k |-> "resp", id |-> i, body |-> b] :
                 i \in RespIds, b \in {"result", "error"}}
BoolLines == {[k |-> "boolid", id |-> 1, body |-> "result"]}
ResultLines == {l \in RespLines : l.body = "result"}
Lines == NoiseLines \cup RespLines \cup BoolLines

\* The shapes of a response object, by its "error" and "result" members:
\*   result      {"result": r}
\*   error       {"error": e}
\*   nullerror   {"error": null, "result": r}
\*   emptyerror  {"error": {}}: an error object that is falsy in Python
\*   neither     neither member
Bodies == {"result", "error", "nullerror", "emptyerror", "neither"}
RpcLines == {[k |-> "resp", id |-> i, body |-> b] : i \in RespIds, b \in Bodies}

\* resp["error"], or "absent" when resp has no such key.
ErrorField(body) ==
  CASE body = "error"      -> "e"
    [] body = "emptyerror" -> "{}"
    [] body = "nullerror"  -> "null"
    [] OTHER               -> "absent"

\* resp.get("result")
ResultField(body) == IF body \in {"result", "nullerror"} THEN "r" ELSE "None"

\* A test that forgets "is not None".
HasErrorKey(body) == ErrorField(body) # "absent"

\* "error" in resp and resp["error"] is not None
HasError(body) == ErrorField(body) # "absent" /\ ErrorField(body) # "null"

\* How a call leaves request().  rid and body are the id and shape of the
\* response it took, value what it returns or what its RpcError holds; tail is
\* the text of the process-exited error and cap the number of stderr lines
\* captured when it was built.
NoOutcome == [kind |-> "none", id |-> 0, method |-> "none", rid |-> 0,
              body |-> "none", value |-> "none", tail |-> <<>>, cap |-> 0]

\* What a call of start, stop, list_tools or call_tool gave back: kind is
\* "ok" or "raised", value the tools or the text it returned, roundtrip whether it sent a
\* request.
NoReturn == [op |-> "none", kind |-> "none", value |-> <<>>,
             roundtrip |-> FALSE]
Return(op, kind, value, rt) ==
  [op |-> op, kind |-> kind, value |-> value, roundtrip |-> rt]

\* self._session is None; self._tools_cache is None, and a cache that holds
\* the list of adapted tools.
NoSession == 0
\* The totals of a new TaskMetrics, and its empty dict.
ZeroTotals ==
  [total_input_tokens |-> 0, total_output_tokens |-> 0,
   total_tool_calls |-> 0, total_wall_clock_s |-> 0]
EmptyUsage == [name \in {} |-> 0]
\* No response of the model yet.
NoResponse == [stop_reason |-> "none", blocks |-> 0]
\* run_mcp_conversation has not returned; it has returned text.
NoAnswer == [has |-> FALSE, text |-> <<>>]
Answer(text) == [has |-> TRUE, text |-> text]
\* No call issued by the model.
NoCall == [idx |-> 0, name |-> 0]
NoCache == [has |-> FALSE, tools |-> <<>>]
Cache(ts) == [has |-> TRUE, tools |-> ts]

VARIABLES
  next_id,       \* self._next_id
  resp_by_id,    \* self._resp_by_id: id -> the thread whose call made the queue
  proc,          \* the child: "running", "killed" (SIGKILL sent), "exited"
  stdout,        \* lines the child wrote that the reader has not read
  stderrPipe,    \* stderr lines written, not yet read
  stderrN,       \* stderr lines the child has written so far
  stderr_lines,  \* self._stderr_lines
  pc,            \* each request thread's place in request()
  req_id,        \* request()'s local req_id
  tmp,           \* the value loaded by "self._next_id += 1"
  method,        \* request()'s method argument
  slot,          \* the call's queue.Queue(maxsize=1): NoMsg when empty
  outcome,       \* the result or exception the call is leaving with
  exitSeen,      \* the child exited while this call waited, unanswered
  closeSeen,     \* close() began while this call waited, unanswered
  rpc,           \* the stdout reader: "read", "log", "put", "eof", "dead"
  rmsg,          \* the line the reader is handling
  rq,            \* the queue it delivers to: a thread, or a queue its call left
  epc,           \* the stderr reader: "read", "eof"
  cpc,           \* the close() thread: "idle", "c_wait"
  closes         \* calls of close() begun

\* The state of the transport.
transportVars ==
  <<next_id, resp_by_id, proc, stdout, stderrPipe, stderrN, stderr_lines,
    pc, req_id, tmp, method, slot, outcome, exitSeen, closeSeen,
    rpc, rmsg, rq, epc, cpc, closes>>

\* The child's stdin, as self._stdin (a line-buffered text stream) feeds it.
VARIABLES
  stdin,         \* the bytes the child has received, in order
  pending,       \* bytes self._stdin holds that it has not passed on
  npc,           \* the notify() thread: "idle", "n_write", "n_flush"
  wcall,         \* each writer: the write() calls done for its message
  notifies       \* calls of notify() begun

writeVars == <<stdin, pending, npc, wcall, notifies>>

\* MCPClient (eval/mcp_client.py): the session and the tool-catalog cache.
VARIABLES
  session,       \* self._session: NoSession, or the number of the ClientSession
  tools_cache,   \* self._tools_cache: NoCache, or the adapted catalog
  sessions,      \* ClientSessions created so far
  wire,          \* the methods sent on the current session, in order
  listOk,        \* per session, the tools/list exchanges that succeeded
  mret,          \* how the last call of a method of MCPClient ended
  ops            \* calls of methods of MCPClient made so far

sessionVars == <<session, tools_cache, sessions, wire, listOk, mret, ops>>

\* The adaptation of a catalog and the way back of a call by name.
VARIABLES
  catalog,       \* result.tools: the descriptors the server listed
  tools,         \* what list_tools() returned for them
  call,          \* the call the model issued: the entry it chose, its name
  dispatched     \* the tools of the catalog that bear the name sent

adaptVars == <<catalog, tools, call, dispatched>>

\* run_mcp_conversation(): one conversation of a driver.
VARIABLES
  driver,        \* "anthropic": eval/conversation.py; "gemini": evalGemini/
  max_turns,     \* the turn budget passed in
  dpc,           \* where the driver stands
  turn_idx,      \* the loop variable
  response,      \* the last response of the model
  block_idx,     \* the tool call of the response the for loop stands at
  tool_results,  \* tool_results / function_response_parts of this turn
  payloads,      \* how each dispatch of this turn ended in the client
  messages,      \* messages / contents: the transcript
  turns,         \* task_metrics.turns
  model_calls,   \* the calls of the model made so far
  raised_by,     \* what raised out of run_mcp_conversation, if anything
  running,       \* the calls of the model and of tools that are under way
  answer         \* what run_mcp_conversation returned

convVars ==
  <<driver, max_turns, dpc, turn_idx, response, block_idx, tool_results,
    payloads, messages, turns, model_calls, raised_by, running, answer>>

\* run_harness(): the conditions, their tasks, the runs of each task.
VARIABLES
  hpc,           \* where run_harness stands
  condition,     \* the condition of the outer loop
  task,          \* the task of the loop over task_file.tasks
  run_idx,       \* the loop variable of the runs
  all_metrics,   \* the outcomes recorded so far
  run_outcomes,  \* how each run made so far ended
  hraised_by     \* what raised out of run_harness, if anything

harnessVars ==
  <<hpc, condition, task, run_idx, all_metrics, run_outcomes, hraised_by>>

\* One TaskMetrics.
VARIABLES
  variant,       \* "eval": eval/metrics.py; "evalGemini": evalGemini/metrics.py
  self_turns,    \* self.turns
  totals,        \* the four total_ fields
  tool_usage,    \* self.tool_usage (evalGemini)
  finalizes      \* calls of finalize() since the last Turn: 0, 1, or more

metricsVars == <<variant, self_turns, totals, tool_usage, finalizes>>

\* McpStdioClient.__init__ (mcp_smoke.py), step by step.
VARIABLES
  ipc,           \* the constructor: "popen", "start_stdout", "start_stderr",
                 \* "done", "failed" (it raised: there is no client)
  started        \* the start() calls made on the reader thread of each stream

ctorVars == <<ipc, started>>

\* What has happened on the client so far.
VARIABLES
  expired        \* the ids of the requests that timed out and were deregistered

historyVars == <<expired>>

\* run_task() of an MCP runner (eval/runners, evalGemini/runners).
VARIABLES
  upc,           \* where run_task stands: "idle" (not in it), "start",
                 \* "conversation", "stop", "finalize", "leave"
  uruns,         \* calls of run_task begun
  ulog,          \* the calls this run_task has made, in order
  uerr,          \* the exception on its way out of run_task: where it rose
  uanswer,       \* metrics.final_answer has been set
  uret           \* how each run_task that has ended went

runnerVars == <<upc, uruns, ulog, uerr, uanswer, uret>>

\* The commands of mcp_smoke.py: _cmd_list, _cmd_call, _cmd_smoke, _cmd_repl.
VARIABLES
  cmd,           \* the command main() dispatched to, "none" before
  cmd_url,       \* args.url is given (smoke)
  mpc,           \* where the command stands: "idle", "body", "shutdown",
                 \* "close", "left"
  cmd_step,      \* the call of the body the command stands at
  session_id,    \* _cmd_smoke's session_id: "None", "id", or "malformed"
                 \* (a value that is true but no string)
  cmd_log,       \* the calls of shutdown-browser and of client.close() made
  cmd_exc,       \* the exception on its way out of the command
  repl_lines     \* lines read by the repl

cmdVars ==
  <<cmd, cmd_url, mpc, cmd_step, session_id, cmd_log, cmd_exc, repl_lines>>

\* The scripts and runners that use the clients.
toolingVars == <<ctorVars, historyVars, runnerVars, cmdVars>>

\* The state of the layers above the transport, and the state outside of
\* each layer.
aboveWriteVars ==
  <<sessionVars, adaptVars, convVars, harnessVars, metricsVars, toolingVars>>
upperVars == <<writeVars, aboveWriteVars>>
notSessionVars ==
  <<transportVars, writeVars, adaptVars, convVars, harnessVars, metricsVars,
    toolingVars>>
notAdaptVars ==
  <<transportVars, writeVars, sessionVars, convVars, harnessVars, metricsVars,
    toolingVars>>
notConvVars ==
  <<transportVars, writeVars, sessionVars, adaptVars, harnessVars, metricsVars,
    toolingVars>>
notHarnessVars ==
  <<transportVars, writeVars, sessionVars, adaptVars, convVars, metricsVars,
    toolingVars>>
notMetricsVars ==
  <<transportVars, writeVars, sessionVars, adaptVars, convVars, harnessVars,
    toolingVars>>
notToolingVars ==
  <<writeVars, sessionVars, adaptVars, convVars, harnessVars, metricsVars>>
notCtorVars == <<notToolingVars, historyVars, runnerVars, cmdVars>>
notHistoryVars == <<transportVars, notToolingVars, ctorVars, runnerVars, cmdVars>>
notRunnerVars == <<transportVars, notToolingVars, ctorVars, historyVars, cmdVars>>
notCmdVars == <<transportVars, notToolingVars, ctorVars, historyVars, runnerVars>>

vars == <<transportVars, upperVars>>

childVars == <<proc, stdout, stderrPipe, stderrN>>
readerVars == <<rpc, rmsg, rq>>
closeVars == <<cpc, closes>>
threadVars == <<pc, req_id, tmp, method, slot, outcome, exitSeen, closeSeen>>

\* ------------------------------------------------------------ the helpers
EmptyTable == [i \in {} |-> "none"]

\* A reader that hands a response to the oldest outstanding request, as if
\* the child answered in order, whatever id the response carries.
LookupOldest(tbl, id) ==
  IF DOMAIN tbl = {}
    THEN "none"
    ELSE tbl[CHOOSE i \in DOMAIN tbl : \A j \in DOMAIN tbl : i <= j]

\* dict.get(msg_id): the queue, or None.
Lookup(tbl, id) == IF id \in DOMAIN tbl THEN tbl[id] ELSE "none"

\* self._resp_by_id[req_id] = q
Register(tbl, id, q) ==
  [i \in DOMAIN tbl \cup {id} |-> IF i = id THEN q ELSE tbl[i]]

\* A finally block that forgets the entry.
PopNothing(tbl, id) == tbl

\* self._resp_by_id.pop(req_id, None)
Pop(tbl, id) == [i \in DOMAIN tbl \ {id} |-> tbl[i]]

\* A poll() that never learns of the exit.
PollNeverExited(p) == "None"

\* self._proc.poll(): the return code once the child has exited, else None.
Poll(p) == IF p = "exited" THEN "rc" ELSE "None"

\* The loop of _ensure_running: take from the head of the queue until it is
\* empty or StderrTailMax lines are taken.
RECURSIVE DrainLoop(_, _)
DrainLoop(q, taken) ==
  IF q # <<>> /\ Len(taken) < StderrTailMax
    THEN DrainLoop(Tail(q), Append(taken, Head(q)))
    ELSE <<q, taken>>

StderrTail(q) == DrainLoop(q, <<>>)[2]
StderrRest(q) == DrainLoop(q, <<>>)[1]

\* A reader whose try does not cover json.loads.
ClassifyUncaught(line) ==
  IF line.k \in {"nonjson", "scalar"}
    THEN "die"
    ELSE IF line.k \in {"resp", "boolid"} THEN "lookup" ELSE "skip"

\* What the reader does with a line before it looks at the table:
\* "skip" (continue), "die" (an exception leaves the loop), "lookup".
Classify(line) ==
  CASE line.k = "blank"   -> "skip"    \* if not line: continue
    [] line.k = "nonjson" -> "skip"    \* except Exception: continue
    [] line.k = "scalar"  -> "die"     \* msg.get: AttributeError, not caught
    [] line.k = "notif"   -> "skip"    \* msg_id is None
    [] line.k = "badid"   -> "skip"    \* not isinstance(msg_id, int)
    [] line.k = "boolid"  -> "lookup"  \* isinstance(True, int) holds
    [] line.k = "resp"    -> "lookup"

Registered == {"r_write", "r_flush", "r_wait", "r_timedout", "r_finally"}

\* The call of t waits in q.get() and the child has not answered it: its
\* queue is empty, no line for its id is in the pipe or in the reader's hand.
Unanswered(t) ==
  /\ pc[t] = "r_wait"
  /\ slot[t] = NoMsg
  /\ \A i \in 1 .. Len(stdout) :
        ~(Classify(stdout[i]) = "lookup" /\ stdout[i].id = req_id[t])
  /\ ~(rpc = "put" /\ rq = t)

\* ------------------------------------------------------------------- Init
InitTransport ==
  /\ next_id = 1
  /\ resp_by_id = EmptyTable
  /\ proc = "running"
  /\ stdout = <<>>
  /\ stderrPipe = <<>>
  /\ stderrN = 0
  /\ stderr_lines = <<>>
  /\ pc = [t \in Threads |-> "idle"]
  /\ req_id = [t \in Threads |-> 0]
  /\ tmp = [t \in Threads |-> 0]
  /\ method = [t \in Threads |-> "none"]
  /\ slot = [t \in Threads |-> NoMsg]
  /\ outcome = [t \in Threads |-> NoOutcome]
  /\ exitSeen = [t \in Threads |-> FALSE]
  /\ closeSeen = [t \in Threads |-> FALSE]
  /\ rpc = "read"
  /\ rmsg = NoMsg
  /\ rq = "none"
  /\ epc = "read"
  /\ cpc = "idle"
  /\ closes = 0

InitWrite ==
  /\ stdin = <<>>
  /\ pending = <<>>
  /\ npc = "idle"
  /\ wcall = [w \in Writers |-> 0]
  /\ notifies = 0

InitSession ==
  /\ session = NoSession
  /\ tools_cache = NoCache
  /\ sessions = 0
  /\ wire = <<>>
  /\ listOk = [n \in {} |-> 0]
  /\ mret = NoReturn
  /\ ops = 0

\* No list_tools() has returned and no call was issued for the catalog c.
InitCatalog(c) ==
  /\ catalog = c
  /\ tools = NoCache
  /\ call = NoCall
  /\ dispatched = {}

\* run_mcp_conversation(max_turns = n) of the driver d has been called and
\* has not run yet.
InitDriver(d, n) ==
  /\ driver = d
  /\ max_turns = n
  /\ dpc = "start"
  /\ turn_idx = 0
  /\ response = NoResponse
  /\ block_idx = 0
  /\ tool_results = <<>>
  /\ payloads = <<>>
  /\ messages = <<>>
  /\ turns = <<>>
  /\ model_calls = <<>>
  /\ raised_by = "none"
  /\ running = {}
  /\ answer = NoAnswer

\* run_harness() has loaded the tasks and stands before the first
\* condition.
InitHarness ==
  /\ hpc = "setup"
  /\ condition = 1
  /\ task = 1
  /\ run_idx = 0
  /\ all_metrics = <<>>
  /\ run_outcomes = <<>>
  /\ hraised_by = "none"

\* A TaskMetrics of the variant v as its constructor leaves it.
InitMetrics(v) ==
  /\ variant = v
  /\ self_turns = <<>>
  /\ totals = ZeroTotals
  /\ tool_usage = EmptyUsage
  /\ finalizes = 0

Streams == {"stdout", "stderr"}

\* A client whose constructor has returned: each reader was started once.
InitCtor ==
  /\ ipc = "done"
  /\ started = [s \in Streams |-> 1]

InitHistory == expired = {}

\* No run_task has been called.
InitRunner ==
  /\ upc = "idle"
  /\ uruns = 0
  /\ ulog = <<>>
  /\ uerr = "none"
  /\ uanswer = FALSE
  /\ uret = <<>>

\* main() has parsed the arguments and has not dispatched yet.
InitCmd ==
  /\ cmd = "none"
  /\ cmd_url = FALSE
  /\ mpc = "idle"
  /\ cmd_step = 0
  /\ session_id = "None"
  /\ cmd_log = <<>>
  /\ cmd_exc = "none"
  /\ repl_lines = 0

InitTooling == InitCtor /\ InitHistory /\ InitRunner /\ InitCmd

Init ==
  /\ InitTransport /\ InitWrite /\ InitSession /\ InitTooling /\ InitCatalog(<<>>)
  /\ InitDriver("anthropic", 0)
  /\ InitHarness
  /\ InitMetrics("eval")

\* A new TaskMetrics of either variant.
InitFinalize ==
  /\ InitTransport /\ InitWrite /\ InitSession /\ InitTooling /\ InitCatalog(<<>>)
  /\ InitDriver("anthropic", 0)
  /\ InitHarness
  /\ \E v \in {"eval", "evalGemini"} : InitMetrics(v)

\* Every catalog a server may list: up to MaxTools descriptors with names
\* that differ (a server's tools are told apart by their names).
Descriptors ==
  [name : 1 .. MaxNames, description : {"None", "", "d"},
   inputSchema : {"s1", "s2"}]
Catalogs ==
  {c \in UNION {[1 .. m -> Descriptors] : m \in 0 .. MaxTools} :
     \A i \in 1 .. Len(c) : \A j \in 1 .. Len(c) :
        c[i].name = c[j].name => i = j}

\* The state before list_tools() is called on a server with any catalog.
InitAdapt ==
  /\ InitTransport /\ InitWrite /\ InitSession /\ InitTooling
  /\ \E c \in Catalogs : InitCatalog(c)
  /\ InitDriver("anthropic", 0)
  /\ InitHarness
  /\ InitMetrics("eval")

\* The two drivers and the turn budgets a caller may pass.
Drivers == {"anthropic", "gemini"}
Budgets == -1 .. MaxTurns

\* The state when run_mcp_conversation() of either driver is entered.
InitConv ==
  /\ InitTransport /\ InitWrite /\ InitSession /\ InitTooling /\ InitCatalog(<<>>)
  /\ \E d \in Drivers : \E n \in Budgets : InitDriver(d, n)
  /\ InitHarness
  /\ InitMetrics("eval")


\* ------------------------------------------------------------ the outcomes
OutResult(t, m) ==
  [kind |-> IF HasError(m.body) THEN "RpcError" ELSE "Result",
   id |-> req_id[t], method |-> method[t], rid |-> m.id, body |-> m.body,
   value |-> IF HasError(m.body) THEN ErrorField(m.body)
                                 ELSE ResultField(m.body),
   tail |-> <<>>, cap |-> 0]

OutTimeout(t) ==
  [kind |-> "TimeoutError", id |-> req_id[t], method |-> method[t],
   rid |-> 0, body |-> "none", value |-> "none", tail |-> <<>>, cap |-> 0]

OutExited(id, m, tail) ==
  [kind |-> "ProcessExited", id |-> id, method |-> m,
   rid |-> 0, body |-> "none", value |-> "none", tail |-> tail,
   cap |-> stderrN - Len(stderrPipe)]

OutWriteError(t) ==
  [kind |-> "WriteError", id |-> req_id[t], method |-> method[t],
   rid |-> 0, body |-> "none", value |-> "none", tail |-> <<>>, cap |-> 0]

\* A request() that does not ask whether the child runs before it goes on.
EnterRequestUnchecked(t, m) ==
  /\ pc[t] = "idle"
  /\ next_id <= MaxId
  /\ method' = [method EXCEPT ![t] = m]
  /\ pc' = [pc EXCEPT ![t] = "r_readid"]
  /\ UNCHANGED <<upperVars, next_id, resp_by_id, childVars, stderr_lines,
                 req_id, tmp, slot, outcome, exitSeen, closeSeen, readerVars,
                 epc, closeVars>>

\* ------------------------------------------------------------- request()
\* request() is entered: _ensure_running() either raises, with the drained
\* stderr lines, before anything is allocated, or lets the call go on.
EnterRequest(t, m) ==
  /\ pc[t] = "idle"
  /\ next_id <= MaxId
  /\ method' = [method EXCEPT ![t] = m]
  /\ IF Poll(proc) = "None"
       THEN /\ pc' = [pc EXCEPT ![t] = "r_readid"]
            /\ UNCHANGED <<outcome, stderr_lines>>
       ELSE /\ pc' = [pc EXCEPT ![t] = "r_raise"]
            /\ outcome' = [outcome EXCEPT
                 ![t] = OutExited(0, m, StderrTail(stderr_lines))]
            /\ stderr_lines' = StderrRest(stderr_lines)
  /\ UNCHANGED <<upperVars, next_id, resp_by_id, childVars, req_id, tmp, slot,
                 exitSeen, closeSeen, readerVars, epc, closeVars>>

\* The RuntimeError of the first _ensure_running() leaves request() before
\* its try: there is no entry to remove.
Raise(t) ==
  /\ pc[t] = "r_raise"
  /\ pc' = [pc EXCEPT ![t] = "idle"]
  /\ method' = [method EXCEPT ![t] = "none"]
  /\ outcome' = [outcome EXCEPT ![t] = NoOutcome]
  /\ UNCHANGED <<upperVars, next_id, resp_by_id, childVars, stderr_lines, req_id, tmp,
                 slot, exitSeen, closeSeen, readerVars, epc, closeVars>>

\* req_id = self._next_id
ReadId(t) ==
  /\ pc[t] = "r_readid"
  /\ req_id' = [req_id EXCEPT ![t] = next_id]
  /\ pc' = [pc EXCEPT ![t] = "r_load"]
  /\ UNCHANGED <<upperVars, next_id, resp_by_id, childVars, stderr_lines, tmp, method,
                 slot, outcome, exitSeen, closeSeen, readerVars, epc, closeVars>>

\* self._next_id += 1 reads the counter ...
LoadId(t) ==
  /\ pc[t] = "r_load"
  /\ tmp' = [tmp EXCEPT ![t] = next_id]
  /\ pc' = [pc EXCEPT ![t] = "r_store"]
  /\ UNCHANGED <<upperVars, next_id, resp_by_id, childVars, stderr_lines, req_id, method,
                 slot, outcome, exitSeen, closeSeen, readerVars, epc, closeVars>>

\* ... and writes it back, one more.  No lock is held over the three steps.
StoreId(t) ==
  /\ pc[t] = "r_store"
  /\ next_id' = tmp[t] + 1
  /\ pc' = [pc EXCEPT ![t] = "r_register"]
  /\ UNCHANGED <<upperVars, resp_by_id, childVars, stderr_lines, req_id, tmp, method,
                 slot, outcome, exitSeen, closeSeen, readerVars, epc, closeVars>>

\* q = queue.Queue(maxsize=1); with self._resp_lock: self._resp_by_id[req_id] = q
RegisterReq(t) ==
  /\ pc[t] = "r_register"
  /\ resp_by_id' = Register(resp_by_id, req_id[t], t)
  /\ slot' = [slot EXCEPT ![t] = NoMsg]
  /\ pc' = [pc EXCEPT ![t] = "r_write"]
  /\ UNCHANGED <<upperVars, next_id, childVars, stderr_lines, req_id, tmp, method,
                 outcome, exitSeen, closeSeen, readerVars, epc, closeVars>>

\* self._stdin.write(payload + "\n"); self._stdin.flush(): a pipe whose
\* reader has exited raises BrokenPipeError, inside the try.
WriteReq(t) ==
  /\ pc[t] = "r_write"
  /\ IF proc = "exited"
       THEN /\ outcome' = [outcome EXCEPT ![t] = OutWriteError(t)]
            /\ pc' = [pc EXCEPT ![t] = "r_finally"]
       ELSE /\ pc' = [pc EXCEPT ![t] = "r_wait"]
            /\ UNCHANGED outcome
  /\ UNCHANGED <<upperVars, next_id, resp_by_id, childVars, stderr_lines, req_id, tmp,
                 method, slot, exitSeen, closeSeen, readerVars, epc, closeVars>>

\* resp = q.get(timeout=timeout_s) returns the queued response: RpcError if
\* it carries an error, else its result.
GetResp(t) ==
  /\ pc[t] = "r_wait"
  /\ slot[t] # NoMsg
  /\ outcome' = [outcome EXCEPT ![t] = OutResult(t, slot[t])]
  /\ slot' = [slot EXCEPT ![t] = NoMsg]
  /\ pc' = [pc EXCEPT ![t] = "r_finally"]
  /\ UNCHANGED <<upperVars, next_id, resp_by_id, childVars, stderr_lines, req_id, tmp,
                 method, exitSeen, closeSeen, readerVars, epc, closeVars>>

\* q.get raises queue.Empty: the timeout ran out on an empty queue.
GetTimeout(t) ==
  /\ pc[t] = "r_wait"
  /\ slot[t] = NoMsg
  /\ pc' = [pc EXCEPT ![t] = "r_timedout"]
  /\ UNCHANGED <<upperVars, next_id, resp_by_id, childVars, stderr_lines, req_id, tmp,
                 method, slot, outcome, exitSeen, closeSeen, readerVars, epc,
                 closeVars>>

\* A handler of queue.Empty that raises TimeoutError without asking whether
\* the child still runs.
TimedOutNoCheck(t) ==
  /\ pc[t] = "r_timedout"
  /\ outcome' = [outcome EXCEPT ![t] = OutTimeout(t)]
  /\ pc' = [pc EXCEPT ![t] = "r_finally"]
  /\ UNCHANGED <<upperVars, next_id, resp_by_id, childVars, stderr_lines,
                 req_id, tmp, method, slot, exitSeen, closeSeen, readerVars,
                 epc, closeVars>>

\* except queue.Empty: self._ensure_running(); raise TimeoutError(...)
TimedOut(t) ==
  /\ pc[t] = "r_timedout"
  /\ IF Poll(proc) = "None"
       THEN /\ outcome' = [outcome EXCEPT ![t] = OutTimeout(t)]
            /\ UNCHANGED stderr_lines
       ELSE /\ outcome' = [outcome EXCEPT
                 ![t] = OutExited(req_id[t], method[t], StderrTail(stderr_lines))]
            /\ stderr_lines' = StderrRest(stderr_lines)
  /\ pc' = [pc EXCEPT ![t] = "r_finally"]
  /\ UNCHANGED <<upperVars, next_id, resp_by_id, childVars, req_id, tmp, method, slot,
                 exitSeen, closeSeen, readerVars, epc, closeVars>>

\* finally: with self._resp_lock: self._resp_by_id.pop(req_id, None).  The
\* call leaves with its outcome and its locals are gone; a reader that still
\* holds its queue puts into an object nobody reads (and blocks for good if
\* the queue is full).
Finally(t) ==
  /\ pc[t] = "r_finally"
  /\ resp_by_id' = Pop(resp_by_id, req_id[t])
  /\ rq' = IF rpc = "put" /\ rq = t
             THEN (IF slot[t] = NoMsg THEN "left_empty" ELSE "left_full")
             ELSE rq
  /\ slot' = [slot EXCEPT ![t] = NoMsg]
  /\ pc' = [pc EXCEPT ![t] = "idle"]
  /\ req_id' = [req_id EXCEPT ![t] = 0]
  /\ tmp' = [tmp EXCEPT ![t] = 0]
  /\ method' = [method EXCEPT ![t] = "none"]
  /\ outcome' = [outcome EXCEPT ![t] = NoOutcome]
  /\ exitSeen' = [exitSeen EXCEPT ![t] = FALSE]
  /\ closeSeen' = [closeSeen EXCEPT ![t] = FALSE]
  /\ UNCHANGED <<upperVars, next_id, childVars, stderr_lines, rpc, rmsg, epc, closeVars>>

\* ------------------------------------------------- self._stdin, notify()
\* The newline, and json.dumps(msg) for the message of writer w: two bytes
\* that name their writer.
NL == [by |-> "nl", part |-> 0]
Payload(w) == <<[by |-> w, part |-> 1], [by |-> w, part |-> 2]>>

\* Writing the text and the newline with two calls.
WriteCallsSplit(payload) == <<payload, <<NL>>>>

\* The write() calls made for one message: self._stdin.write(payload + "\n").
WriteCalls(payload) == <<payload \o <<NL>>>>

HasNewline(text) == \E i \in 1 .. Len(text) : text[i] = NL

\* self._stdin.write(text): the stream is line buffered (bufsize=1, text
\* mode).  The text joins the bytes the stream holds; if it has a newline all
\* of them go to the pipe, else they stay.  One call is one step: the stream's
\* buffer is written under the buffer's own lock.
StdinAfterWrite(text) ==
  IF HasNewline(text) THEN stdin \o pending \o text ELSE stdin
PendingAfterWrite(text) ==
  IF HasNewline(text) THEN <<>> ELSE pending \o text

\* The write reaches a pipe whose reader is gone: BrokenPipeError.
PipeBroken(text) == proc = "exited" /\ (HasNewline(text) \/ text = <<>>) /\
                    (pending \o text) # <<>>

\* request(): self._stdin.write(payload + "\n"), WriteReq taken apart into
\* the calls on self._stdin.
StdinWriteReq(t) ==
  /\ pc[t] = "r_write"
  /\ LET calls == WriteCalls(Payload(t))
         text == calls[wcall[t] + 1]
         last == wcall[t] + 1 = Len(calls)
     IN  IF PipeBroken(text)
           THEN /\ outcome' = [outcome EXCEPT ![t] = OutWriteError(t)]
                /\ pc' = [pc EXCEPT ![t] = "r_finally"]
                /\ wcall' = [wcall EXCEPT ![t] = 0]
                /\ pending' = <<>>
                /\ UNCHANGED stdin
           ELSE /\ stdin' = StdinAfterWrite(text)
                /\ pending' = PendingAfterWrite(text)
                /\ wcall' = [wcall EXCEPT ![t] = IF last THEN 0 ELSE @ + 1]
                /\ pc' = [pc EXCEPT ![t] = IF last THEN "r_flush" ELSE @]
                /\ UNCHANGED outcome
  /\ UNCHANGED <<aboveWriteVars, next_id, resp_by_id, childVars, stderr_lines, req_id, tmp,
                 method, slot, exitSeen, closeSeen, readerVars, epc, closeVars,
                 npc, notifies>>

\* request(): self._stdin.flush()
StdinFlushReq(t) ==
  /\ pc[t] = "r_flush"
  /\ IF PipeBroken(<<>>)
       THEN /\ outcome' = [outcome EXCEPT ![t] = OutWriteError(t)]
            /\ pc' = [pc EXCEPT ![t] = "r_finally"]
            /\ UNCHANGED stdin
       ELSE /\ stdin' = stdin \o pending
            /\ pc' = [pc EXCEPT ![t] = "r_wait"]
            /\ UNCHANGED outcome
  /\ pending' = <<>>
  /\ UNCHANGED <<aboveWriteVars, next_id, resp_by_id, childVars, stderr_lines, req_id, tmp,
                 method, slot, exitSeen, closeSeen, readerVars, epc, closeVars,
                 npc, wcall, notifies>>

\* notify(): self._ensure_running() raises if the child has exited, with the
\* drained stderr lines.
NotifyEnter ==
  /\ npc = "idle"
  /\ notifies < MaxNotifies
  /\ notifies' = notifies + 1
  /\ IF Poll(proc) = "None"
       THEN /\ npc' = "n_write"
            /\ UNCHANGED stderr_lines
       ELSE /\ npc' = "idle"
            /\ stderr_lines' = StderrRest(stderr_lines)
  /\ UNCHANGED <<aboveWriteVars, next_id, resp_by_id, childVars, threadVars, readerVars, epc,
                 closeVars, stdin, pending, wcall>>

\* notify(): self._stdin.write(payload + "\n")
StdinWriteNotify ==
  /\ npc = "n_write"
  /\ LET calls == WriteCalls(Payload(Notifier))
         text == calls[wcall[Notifier] + 1]
         last == wcall[Notifier] + 1 = Len(calls)
     IN  IF PipeBroken(text)
           THEN /\ npc' = "idle"
                /\ wcall' = [wcall EXCEPT ![Notifier] = 0]
                /\ pending' = <<>>
                /\ UNCHANGED stdin
           ELSE /\ stdin' = StdinAfterWrite(text)
                /\ pending' = PendingAfterWrite(text)
                /\ wcall' = [wcall EXCEPT ![Notifier] = IF last THEN 0 ELSE @ + 1]
                /\ npc' = IF last THEN "n_flush" ELSE npc
  /\ UNCHANGED <<aboveWriteVars, transportVars, notifies>>

\* notify(): self._stdin.flush()
StdinFlushNotify ==
  /\ npc = "n_flush"
  /\ stdin' = IF PipeBroken(<<>>) THEN stdin ELSE stdin \o pending
  /\ pending' = <<>>
  /\ npc' = "idle"
  /\ UNCHANGED <<aboveWriteVars, transportVars, wcall, notifies>>

\* ------------------------------------------------------------ MCPClient
\* The catalog the server of session n answers tools/list with, when it has
\* k tools: the names tell the sessions apart.
ServerCatalog(n, k) ==
  [i \in 1 .. k |-> [name |-> 10 * n + i,
                     description |-> IF i = 1 THEN "None" ELSE "d",
                     inputSchema |-> "schema"]]

\* An adaptation that puts the tools in another order.
McpSchemaToAnthropicReversed(descs) ==
  [i \in 1 .. Len(descs) |->
     [name |-> descs[Len(descs) + 1 - i].name,
      description |-> IF descs[Len(descs) + 1 - i].description = "None"
                        THEN "" ELSE descs[Len(descs) + 1 - i].description,
      input_schema |-> descs[Len(descs) + 1 - i].inputSchema]]

\* [_mcp_schema_to_anthropic(t) for t in result.tools]
McpSchemaToAnthropic(descs) ==
  [i \in 1 .. Len(descs) |->
     [name |-> descs[i].name,
      description |-> IF descs[i].description = "None"
                        THEN "" ELSE descs[i].description,
      input_schema |-> descs[i].inputSchema]]

\* A test by truth value: an empty catalog is fetched again.
CacheHitTruthy(cache) == cache.has /\ cache.tools # <<>>

\* if self._tools_cache is not None
CacheHit(cache) == cache.has

\* start(): the transport and the ClientSession are entered, self._session is
\* set, and then initialize() runs: the initialize request and, after its
\* response, the initialized notification.  The spawn may fail (nothing is
\* set), and initialize() may fail (self._session stays set).
Start(how) ==
  /\ ops < MaxOps
  /\ ops' = ops + 1
  /\ \/ /\ how = "spawn_failed"
        /\ mret' = Return("start", "raised", <<>>, FALSE)
        /\ UNCHANGED <<session, sessions, wire, listOk>>
     \/ /\ how \in {"ok", "init_failed"}
        /\ sessions < MaxSessions
        /\ sessions' = sessions + 1
        /\ session' = sessions + 1
        /\ listOk' = [n \in 1 .. sessions + 1 |->
                        IF n \in DOMAIN listOk THEN listOk[n] ELSE 0]
        /\ IF how = "ok"
             THEN /\ wire' = <<"initialize", "notifications/initialized">>
                  /\ mret' = Return("start", "ok", <<>>, TRUE)
             ELSE /\ wire' = <<"initialize">>
                  /\ mret' = Return("start", "raised", <<>>, TRUE)
  /\ UNCHANGED <<notSessionVars, tools_cache>>

\* A stop() that keeps the cache.
StopKeepsCache(how) ==
  /\ ops < MaxOps
  /\ ops' = ops + 1
  /\ IF how = "ok"
       THEN /\ session' = NoSession
            /\ mret' = Return("stop", "ok", <<>>, FALSE)
       ELSE /\ mret' = Return("stop", "raised", <<>>, FALSE)
            /\ UNCHANGED session
  /\ UNCHANGED <<notSessionVars, tools_cache, sessions, wire, listOk>>

\* stop(): await self._exit_stack.aclose(), then the session and the cache
\* are cleared.  If aclose() raises, the two assignments are not reached.
Stop(how) ==
  /\ ops < MaxOps
  /\ ops' = ops + 1
  /\ IF how = "ok"
       THEN /\ session' = NoSession
            /\ tools_cache' = NoCache
            /\ mret' = Return("stop", "ok", <<>>, FALSE)
       ELSE /\ mret' = Return("stop", "raised", <<>>, FALSE)
            /\ UNCHANGED <<session, tools_cache>>
  /\ UNCHANGED <<notSessionVars, sessions, wire, listOk>>

\* list_tools(): the cache if there is one; else the assert on the session,
\* the tools/list round trip, and (if it succeeds) the adapted catalog is
\* cached and returned.
ListTools(how, k) ==
  /\ ops < MaxOps
  /\ ops' = ops + 1
  /\ IF CacheHit(tools_cache)
       THEN /\ mret' = Return("list_tools", "ok", tools_cache.tools, FALSE)
            /\ UNCHANGED <<tools_cache, wire, listOk>>
       ELSE IF session = NoSession
         THEN /\ mret' = Return("list_tools", "raised", <<>>, FALSE)
              /\ UNCHANGED <<tools_cache, wire, listOk>>
         ELSE /\ wire' = Append(wire, "tools/list")
              /\ IF how = "ok"
                   THEN LET adapted == McpSchemaToAnthropic(ServerCatalog(session, k))
                        IN  /\ tools_cache' = Cache(adapted)
                            /\ listOk' = [listOk EXCEPT ![session] = @ + 1]
                            /\ mret' = Return("list_tools", "ok", adapted, TRUE)
                   ELSE /\ mret' = Return("list_tools", "raised", <<>>, TRUE)
                        /\ UNCHANGED <<tools_cache, listOk>>
  /\ UNCHANGED <<notSessionVars, session, sessions>>

\* call_tool(): the assert on the session, then the tools/call round trip.
CallTool(how) ==
  /\ ops < MaxOps
  /\ ops' = ops + 1
  /\ IF session = NoSession
       THEN /\ mret' = Return("call_tool", "raised", <<>>, FALSE)
            /\ UNCHANGED wire
       ELSE /\ wire' = Append(wire, "tools/call")
            /\ mret' = Return("call_tool", IF how = "ok" THEN "ok" ELSE "raised",
                              IF how = "ok" THEN <<"text">> ELSE <<>>, TRUE)
  /\ UNCHANGED <<notSessionVars, session, tools_cache, sessions,
                 listOk>>

\* list_tools() on a session whose server lists the catalog: the adapted
\* tools, in a list.
AdaptCatalog ==
  /\ ~tools.has
  /\ tools' = Cache(McpSchemaToAnthropic(catalog))
  /\ UNCHANGED <<notAdaptVars, catalog, call, dispatched>>

\* The model, given the tools, issues a call of entry i by its name
\* (block.name).
ModelCall(i) ==
  /\ tools.has
  /\ call = NoCall
  /\ i \in 1 .. Len(tools.tools)
  /\ call' = [idx |-> i, name |-> tools.tools[i].name]
  /\ UNCHANGED <<notAdaptVars, catalog, tools, dispatched>>

\* call_tool(name, arguments) sends the name as it got it; the server runs
\* the tools that bear it.
DispatchCall ==
  /\ call # NoCall
  /\ dispatched = {}
  /\ dispatched' = {j \in 1 .. Len(catalog) : catalog[j].name = call.name}
  /\ UNCHANGED <<notAdaptVars, catalog, tools, call>>

\* ------------------------------------------------ run_mcp_conversation()
\* What the model may answer to a call that offers the tools.  A response
\* that stopped for tool use holds a tool call and one that ended its turn
\* holds none; one cut at max_tokens may hold some.  The Gemini driver reads
\* response.function_calls only.
Responses(d) ==
  IF d = "anthropic"
    THEN {r \in [stop_reason : {"tool_use", "end_turn", "max_tokens"},
                  blocks : 0 .. MaxBlocks] :
            /\ r.stop_reason = "tool_use" => r.blocks >= 1
            /\ r.stop_reason = "end_turn" => r.blocks = 0}
    ELSE [stop_reason : {"STOP"}, blocks : 0 .. MaxBlocks]

\* What the model may answer to the call that offers no tools.
FinalResponses(d) == {r \in Responses(d) : r.blocks = 0}

\* if response.stop_reason != "tool_use" / if not function_calls
IsFinalAnswer(d, r) ==
  IF d = "anthropic" THEN r.stop_reason # "tool_use" ELSE r.blocks = 0

\* How a dispatch may end in the client: the payload of the tools/call
\* result comes back with its isError flag clear or set, or call_tool
\* raises.  What the Gemini client makes of a flagged payload is outside
\* of the sources, so its dispatches return or raise.
CallOutcomes(d) ==
  IF d = "anthropic" THEN {"ok", "is_error", "raised"} ELSE {"ok", "raised"}

\* The payload of a tools/call result.
ToolPayload(o) == [text |-> "text", isError |-> (o = "is_error")]

\* MCPClient.call_tool(): the text blocks of the payload, joined: a str.
CallToolReturn(payload) == payload.text

\* The identifier of tool call i of the response of turn k: block.id, which
\* no two blocks share, or fc.name, which calls may share.
BlockTag(d, k, i) ==
  IF d = "anthropic" THEN 10 * (k + 1) + i ELSE ((k + i) % MaxNames) + 1

\* The text of part j of the response to model call c.
PartText(c, j) == 10 * c + j

\* response.content / the parts of the candidate, for the response r to
\* model call c in turn k: a text, the tool calls, and in a response cut at
\* max_tokens the text it was cut in.
Content(d, c, k, r) ==
  <<[type |-> "text", text |-> PartText(c, 1)]>>
    \o [i \in 1 .. r.blocks |-> [type |-> "tool_use", id |-> BlockTag(d, k, i)]]
    \o (IF r.stop_reason = "max_tokens"
          THEN <<[type |-> "text", text |-> PartText(c, 2)]>>
          ELSE <<>>)

\* [b for b in response.content if b.type == "tool_use"] /
\* response.function_calls
HasToolUse(b) == b.type = "tool_use"
ToolUseBlocks(content) == SelectSeq(content, HasToolUse)

\* [b.text for b in response.content if hasattr(b, "text")]
HasText(b) == "text" \in DOMAIN b
TextParts(content) ==
  LET parts == SelectSeq(content, HasText)
  IN  [j \in 1 .. Len(parts) |-> parts[j].text]

\* "\n".join(text_parts): the line break, and the parts with one between
\* each two.
Newline == 0

\* A join that keeps the last part only.
JoinTextLast(parts) ==
  IF Len(parts) = 0 THEN <<>> ELSE <<parts[Len(parts)]>>

RECURSIVE JoinText(_)
JoinText(parts) ==
  IF Len(parts) = 0
    THEN <<>>
    ELSE IF Len(parts) = 1
           THEN parts
           ELSE <<Head(parts), Newline>> \o JoinText(Tail(parts))

\* An entry that bears the place of the call in the response.
ToolResultByPlace(d, k, i, o) ==
  IF d = "anthropic"
    THEN IF o = "raised"
           THEN [type |-> "tool_result", tool_use_id |-> i,
                 content |-> "Error: tool failed", is_error |-> TRUE]
           ELSE [type |-> "tool_result", tool_use_id |-> i,
                 content |-> CallToolReturn(ToolPayload(o))]
    ELSE IF o = "raised"
           THEN [name |-> i, response |-> [error |-> "Tool failed"]]
           ELSE [name |-> i, response |-> [result |-> "text"]]

\* The entry appended for tool call i of turn k that ended as o.
ToolResult(d, k, i, o) ==
  IF d = "anthropic"
    THEN IF o = "raised"
           THEN [type |-> "tool_result", tool_use_id |-> BlockTag(d, k, i),
                 content |-> "Error: tool failed", is_error |-> TRUE]
           ELSE [type |-> "tool_result", tool_use_id |-> BlockTag(d, k, i),
                 content |-> CallToolReturn(ToolPayload(o))]
    ELSE IF o = "raised"
           THEN [name |-> BlockTag(d, k, i),
                 response |-> [error |-> "Tool failed"]]
           ELSE [name |-> BlockTag(d, k, i),
                 response |-> [result |-> "text"]]

\* Whether the model is told that the result is an error: is_error of a
\* tool_result block, the error key of a function response.
ErrorFlagged(r) ==
  IF "is_error" \in DOMAIN r
    THEN r.is_error
    ELSE IF "response" \in DOMAIN r
           THEN "error" \in DOMAIN r.response
           ELSE FALSE

\* The message that asks for the final answer.
FinalInstruction == [role |-> "user", kind |-> "final_instruction"]

\* A loop that makes one turn more than the budget: k <= max_turns.
LoopHeadInclusive(k, msgs) ==
  IF k <= max_turns
    THEN /\ dpc' = "model"
         /\ messages' = msgs
    ELSE /\ dpc' = "final"
         /\ messages' = Append(msgs, FinalInstruction)

\* The head of the for loop with k turns done and the transcript msgs: the
\* next turn, or past the loop the instruction and the final call.
LoopHead(k, msgs) ==
  IF k < max_turns
    THEN /\ dpc' = "model"
         /\ messages' = msgs
    ELSE /\ dpc' = "final"
         /\ messages' = Append(msgs, FinalInstruction)

\* tools = await mcp.list_tools(), and the first message.
ConvStart(how) ==
  /\ dpc = "start"
  /\ IF how = "ok"
       THEN /\ LoopHead(0, <<[role |-> "user", kind |-> "task"]>>)
            /\ UNCHANGED raised_by
       ELSE /\ dpc' = "raised"
            /\ raised_by' = "list_tools"
            /\ UNCHANGED messages
  /\ UNCHANGED <<notConvVars, driver, max_turns, turn_idx, response,
                 block_idx, tool_results, payloads, turns, model_calls,
                 running, answer>>

\* The call of the model is made: client.messages.create(tools=tools, ...) /
\* client.models.generate_content(...).
BeginCreate ==
  /\ dpc = "model"
  /\ dpc' = "in_model"
  /\ model_calls' =
       Append(model_calls, [tools |-> TRUE, messages |-> Len(messages)])
  /\ running' = running \cup {[op |-> "model", n |-> Len(model_calls) + 1]}
  /\ UNCHANGED <<notConvVars, driver, max_turns, turn_idx, response,
                 block_idx, tool_results, payloads, messages, turns,
                 raised_by, answer>>

\* A turn that records its Turn before it knows that the call came back.
CreateMessageTurnFirst(how, r) ==
  /\ dpc = "in_model"
  /\ running' = running \ {[op |-> "model", n |-> Len(model_calls)]}
  /\ turns' = Append(turns, [turn |-> turn_idx, tool_calls |-> r.blocks])
  /\ IF how = "raised"
       THEN /\ dpc' = "raised"
            /\ raised_by' = "model"
            /\ UNCHANGED <<response, messages, tool_results, payloads,
                           block_idx, answer>>
       ELSE /\ response' = r
            /\ UNCHANGED raised_by
            /\ IF IsFinalAnswer(driver, r)
                 THEN /\ dpc' = "done"
                      /\ answer' =
                           Answer(JoinText(TextParts(
                             Content(driver, Len(model_calls), turn_idx, r))))
                      /\ UNCHANGED <<messages, tool_results, payloads,
                                     block_idx>>
                 ELSE /\ dpc' = "dispatch"
                      /\ messages' =
                           Append(messages,
                                  [role |-> "assistant",
                                   kind |-> "response",
                                   content |-> Content(driver, Len(model_calls),
                                                       turn_idx, r)])
                      /\ tool_results' = <<>>
                      /\ payloads' = <<>>
                      /\ block_idx' = 1
                      /\ UNCHANGED answer
  /\ UNCHANGED <<notConvVars, driver, max_turns, turn_idx, model_calls>>

\* [fc.name for fc in function_calls]
CallNames(calls) == [i \in 1 .. Len(calls) |-> calls[i].id]

\* A Turn whose list of names runs from the last call to the first.
TurnRecordReversed(d, k, content) ==
  LET calls == ToolUseBlocks(content)
  IN  IF d = "anthropic"
        THEN [turn |-> k, tool_calls |-> Len(calls)]
        ELSE [turn |-> k, tool_calls |-> Len(calls),
              tools_called |->
                [i \in 1 .. Len(calls) |-> calls[Len(calls) + 1 - i].id]]

\* The Turn of a pass of the loop: tool_calls=len(tool_use_blocks), and in
\* the Gemini driver tool_calls=len(function_calls), tools_called=tool_names.
TurnRecord(d, k, content) ==
  LET calls == ToolUseBlocks(content)
  IN  IF d = "anthropic"
        THEN [turn |-> k, tool_calls |-> Len(calls)]
        ELSE [turn |-> k, tool_calls |-> Len(calls),
              tools_called |-> CallNames(calls)]

\* The Turn of the call without tools: tool_calls=0 (tools_called=[]).
FinalTurn(d, n) ==
  IF d = "anthropic"
    THEN [turn |-> n, tool_calls |-> 0]
    ELSE [turn |-> n, tool_calls |-> 0, tools_called |-> <<>>]

\* The call of the model has come back, by raising or with the response r:
\* the rest of the turn up to the dispatches: the Turn, the test for the
\* final answer, the assistant message.
CreateMessage(how, r) ==
  /\ dpc = "in_model"
  /\ running' = running \ {[op |-> "model", n |-> Len(model_calls)]}
  /\ IF how = "raised"
       THEN /\ dpc' = "raised"
            /\ raised_by' = "model"
            /\ UNCHANGED <<response, turns, messages, tool_results, payloads,
                           block_idx, answer>>
       ELSE /\ response' = r
            /\ turns' = Append(turns,
                               TurnRecord(driver, turn_idx,
                                          Content(driver, Len(model_calls),
                                                  turn_idx, r)))
            /\ UNCHANGED raised_by
            /\ IF IsFinalAnswer(driver, r)
                 THEN /\ dpc' = "done"
                      /\ answer' =
                           Answer(JoinText(TextParts(
                             Content(driver, Len(model_calls), turn_idx, r))))
                      /\ UNCHANGED <<messages, tool_results, payloads,
                                     block_idx>>
                 ELSE /\ dpc' = "dispatch"
                      /\ messages' =
                           Append(messages,
                                  [role |-> "assistant",
                                   kind |-> "response",
                                   content |-> Content(driver, Len(model_calls),
                                                       turn_idx, r)])
                      /\ tool_results' = <<>>
                      /\ payloads' = <<>>
                      /\ block_idx' = 1
                      /\ UNCHANGED answer
  /\ UNCHANGED <<notConvVars, driver, max_turns, turn_idx, model_calls>>

\* The for loop over the tool calls reaches a call: await mcp.call_tool(...).
BeginDispatch ==
  /\ dpc = "dispatch"
  /\ block_idx <= response.blocks
  /\ dpc' = "in_call"
  /\ running' = running \cup {[op |-> "tool", n |-> block_idx]}
  /\ UNCHANGED <<notConvVars, driver, max_turns, turn_idx, response,
                 block_idx, tool_results, payloads, messages, turns,
                 model_calls, raised_by, answer>>

\* A dispatch whose failure is not caught.
DispatchBlockUncaught(o) ==
  /\ dpc = "in_call"
  /\ running' = running \ {[op |-> "tool", n |-> block_idx]}
  /\ payloads' = Append(payloads, o)
  /\ IF o = "raised"
       THEN /\ dpc' = "raised"
            /\ raised_by' = "tool"
            /\ UNCHANGED <<tool_results, block_idx>>
       ELSE /\ tool_results' =
                 Append(tool_results,
                        ToolResult(driver, turn_idx, block_idx, o))
            /\ block_idx' = block_idx + 1
            /\ dpc' = "dispatch"
            /\ UNCHANGED raised_by
  /\ UNCHANGED <<notConvVars, driver, max_turns, turn_idx, response,
                 messages, turns, model_calls, answer>>

\* A dispatch that is started and not awaited: the loop goes on while the
\* call is under way.
DispatchBlockNotAwaited(o) ==
  /\ dpc = "in_call"
  /\ payloads' = Append(payloads, o)
  /\ tool_results' =
       Append(tool_results, ToolResult(driver, turn_idx, block_idx, o))
  /\ block_idx' = block_idx + 1
  /\ dpc' = "dispatch"
  /\ UNCHANGED <<notConvVars, driver, max_turns, turn_idx, response,
                 messages, turns, model_calls, raised_by, running, answer>>

\* The call of the tool has come back as o: the rest of one pass of the for
\* loop over the tool calls: the text is appended, except Exception the
\* error result is.
DispatchBlock(o) ==
  /\ dpc = "in_call"
  /\ running' = running \ {[op |-> "tool", n |-> block_idx]}
  /\ payloads' = Append(payloads, o)
  /\ tool_results' =
       Append(tool_results, ToolResult(driver, turn_idx, block_idx, o))
  /\ block_idx' = block_idx + 1
  /\ dpc' = "dispatch"
  /\ UNCHANGED <<notConvVars, driver, max_turns, turn_idx, response,
                 messages, turns, model_calls, raised_by, answer>>

\* The for loop over the tool calls is through: the results are appended
\* and the loop over the turns goes on.
EndDispatch ==
  /\ dpc = "dispatch"
  /\ block_idx > response.blocks
  /\ turn_idx' = turn_idx + 1
  /\ LoopHead(turn_idx + 1,
              Append(messages,
                     [role |-> IF driver = "anthropic" THEN "user" ELSE "tool",
                      kind |-> "tool_results",
                      results |-> tool_results]))
  /\ UNCHANGED <<notConvVars, driver, max_turns, response, block_idx,
                 tool_results, payloads, turns, model_calls, raised_by,
                 running, answer>>

\* The call of the model without tools is made.
BeginFinal ==
  /\ dpc = "final"
  /\ dpc' = "in_final"
  /\ model_calls' =
       Append(model_calls, [tools |-> FALSE, messages |-> Len(messages)])
  /\ running' = running \cup {[op |-> "model", n |-> Len(model_calls) + 1]}
  /\ UNCHANGED <<notConvVars, driver, max_turns, turn_idx, response,
                 block_idx, tool_results, payloads, messages, turns,
                 raised_by, answer>>

\* A final call that records no Turn.
FinalCallNoTurn(how, r) ==
  /\ dpc = "in_final"
  /\ running' = running \ {[op |-> "model", n |-> Len(model_calls)]}
  /\ IF how = "raised"
       THEN /\ dpc' = "raised"
            /\ raised_by' = "model"
            /\ UNCHANGED <<response, answer>>
       ELSE /\ dpc' = "done"
            /\ response' = r
            /\ answer' =
                 Answer(JoinText(TextParts(
                   Content(driver, Len(model_calls), max_turns, r))))
            /\ UNCHANGED raised_by
  /\ UNCHANGED <<notConvVars, driver, max_turns, turn_idx, block_idx,
                 tool_results, payloads, messages, model_calls, turns>>

\* The call without tools has come back: its Turn, and its text returned.
FinalCall(how, r) ==
  /\ dpc = "in_final"
  /\ running' = running \ {[op |-> "model", n |-> Len(model_calls)]}
  /\ IF how = "raised"
       THEN /\ dpc' = "raised"
            /\ raised_by' = "model"
            /\ UNCHANGED <<response, turns, answer>>
       ELSE /\ dpc' = "done"
            /\ response' = r
            /\ turns' = Append(turns, FinalTurn(driver, max_turns))
            /\ answer' =
                 Answer(JoinText(TextParts(
                   Content(driver, Len(model_calls), max_turns, r))))
            /\ UNCHANGED raised_by
  /\ UNCHANGED <<notConvVars, driver, max_turns, turn_idx, block_idx,
                 tool_results, payloads, messages, model_calls>>

\* ------------------------------------------------- TaskMetrics.finalize()
\* The tool names a Turn may list.
ToolNames == {"a", "b"}

\* The lists of up to n tool names.
RECURSIVE NameLists(_)
NameLists(n) ==
  IF n = 0
    THEN {<<>>}
    ELSE NameLists(n - 1)
           \cup {Append(l, name) : l \in NameLists(n - 1), name \in ToolNames}

\* The Turns a driver may record: the Gemini driver lists the names of the
\* tools called and counts them; wall_clock_s is in whole units.
TurnMetrics(v) ==
  IF v = "eval"
    THEN [input_tokens : {1, 2}, output_tokens : {1, 3},
          tool_calls : 0 .. 2, wall_clock_s : {2}]
    ELSE {t \in [input_tokens : {1, 2}, output_tokens : {1, 3},
                  tool_calls : 0 .. 2, wall_clock_s : {2},
                  tools_called : NameLists(2)] :
            t.tool_calls = Len(t.tools_called)}

\* sum(...) over a list of numbers, from 0 and from the left.
RECURSIVE Sum(_)
Sum(xs) == IF xs = <<>> THEN 0 ELSE Sum(SubSeq(xs, 1, Len(xs) - 1)) + xs[Len(xs)]

\* self.tool_usage.get(tool_name, 0)
UsageGet(usage, name) == IF name \in DOMAIN usage THEN usage[name] ELSE 0

\* self.tool_usage[tool_name] = n
UsagePut(usage, name, n) ==
  [k \in DOMAIN usage \cup {name} |-> IF k = name THEN n ELSE usage[k]]

\* for tool_name in t.tools_called: the count of the name goes up by one.
RECURSIVE TallyNames(_, _)
TallyNames(names, usage) ==
  IF names = <<>>
    THEN usage
    ELSE TallyNames(Tail(names),
                    UsagePut(usage, Head(names),
                             UsageGet(usage, Head(names)) + 1))

\* for t in self.turns: ...
RECURSIVE TallyTurns(_, _)
TallyTurns(ts, usage) ==
  IF ts = <<>>
    THEN usage
    ELSE TallyTurns(Tail(ts), TallyNames(Head(ts).tools_called, usage))

\* A finalize that goes on from the dict it finds.
UsageKept(old) == old

\* self.tool_usage = {}
UsageReset(old) == EmptyUsage

\* A Turn is appended to self.turns, as the drivers do.
RecordTurn(t) ==
  /\ Len(self_turns) < MaxRecorded
  /\ self_turns' = Append(self_turns, t)
  /\ finalizes' = 0
  /\ UNCHANGED <<notMetricsVars, variant, totals, tool_usage>>

\* finalize()
Finalize ==
  /\ totals' =
       [total_input_tokens |->
          Sum([i \in 1 .. Len(self_turns) |-> self_turns[i].input_tokens]),
        total_output_tokens |->
          Sum([i \in 1 .. Len(self_turns) |-> self_turns[i].output_tokens]),
        total_tool_calls |->
          Sum([i \in 1 .. Len(self_turns) |-> self_turns[i].tool_calls]),
        total_wall_clock_s |->
          Sum([i \in 1 .. Len(self_turns) |-> self_turns[i].wall_clock_s])]
  /\ tool_usage' =
       IF variant = "evalGemini"
         THEN TallyTurns(self_turns, UsageReset(tool_usage))
         ELSE tool_usage
  /\ finalizes' = IF finalizes = 0 THEN 1 ELSE 2
  /\ UNCHANGED <<notMetricsVars, variant, self_turns>>

\* ---------------------------------------------------------- run_harness()
\* What run_task returned for the run r of the task t under the condition
\* c, judged.
JudgedMetrics(c, t, r) ==
  [task_id |-> t, condition |-> c, run |-> r,
   final_answer |-> "answer", correct |-> "judged",
   error_traceback |-> "None"]

\* The TaskMetrics built in the except branch.
FailedMetrics(c, t, r) ==
  [task_id |-> t, condition |-> c, run |-> r,
   final_answer |-> "ERROR: detail", correct |-> "False",
   error_traceback |-> "traceback"]

\* The runs that have failed so far.
Failures == {i \in 1 .. Len(run_outcomes) : run_outcomes[i] # "ok"}

\* The two inner loops go on after a run: the next run, the next task, or
\* the end of the try block.
NextRun ==
  IF run_idx + 1 < MaxRuns
    THEN /\ run_idx' = run_idx + 1
         /\ UNCHANGED <<task, hpc>>
    ELSE IF task < MaxTasks
           THEN /\ task' = task + 1
                /\ run_idx' = 0
                /\ UNCHANGED hpc
           ELSE /\ hpc' = "teardown"
                /\ UNCHANGED <<task, run_idx>>

\* runner = runner_cls(settings, defaults); await runner.setup(): outside
\* of the try blocks.
HarnessSetup(how) ==
  /\ hpc = "setup"
  /\ IF how = "ok"
       THEN /\ hpc' = "run"
            /\ task' = 1
            /\ run_idx' = 0
            /\ UNCHANGED hraised_by
       ELSE /\ hpc' = "raised"
            /\ hraised_by' = "setup"
            /\ UNCHANGED <<task, run_idx>>
  /\ UNCHANGED <<notHarnessVars, condition, all_metrics, run_outcomes>>

\* A run whose failure is not caught: the finally block tears down and the
\* failure leaves run_harness.
RunTaskUncaught(o) ==
  /\ hpc = "run"
  /\ o # "ok" => Cardinality(Failures) < MaxFailures
  /\ run_outcomes' = Append(run_outcomes, o)
  /\ IF o = "ok"
       THEN /\ all_metrics' =
                 Append(all_metrics, JudgedMetrics(condition, task, run_idx))
            /\ NextRun
            /\ UNCHANGED hraised_by
       ELSE /\ hpc' = "raised"
            /\ hraised_by' = "run_task"
            /\ UNCHANGED <<all_metrics, task, run_idx>>
  /\ UNCHANGED <<notHarnessVars, condition>>

\* One pass of the loop over the runs: run_task and the judge in the try
\* block, the failed outcome in the except branch, the append.  The run
\* ends as o: "ok", run_task raised, or the judge raised.
RunTask(o) ==
  /\ hpc = "run"
  /\ o # "ok" => Cardinality(Failures) < MaxFailures
  /\ run_outcomes' = Append(run_outcomes, o)
  /\ all_metrics' =
       Append(all_metrics,
              IF o = "ok"
                THEN JudgedMetrics(condition, task, run_idx)
                ELSE FailedMetrics(condition, task, run_idx))
  /\ NextRun
  /\ UNCHANGED <<notHarnessVars, condition, hraised_by>>

\* finally: await runner.teardown(), and the next condition.
HarnessTeardown(how) ==
  /\ hpc = "teardown"
  /\ IF how = "ok"
       THEN /\ UNCHANGED hraised_by
            /\ IF condition < MaxConditions
                 THEN /\ condition' = condition + 1
                      /\ hpc' = "setup"
                 ELSE /\ hpc' = "returned"
                      /\ UNCHANGED condition
       ELSE /\ hpc' = "raised"
            /\ hraised_by' = "teardown"
            /\ UNCHANGED condition
  /\ UNCHANGED <<notHarnessVars, task, run_idx, all_metrics, run_outcomes>>

\* ------------------------------------------------------------ run_task()
\* run_task is entered: the TaskMetrics, the arguments and the MCPClient are
\* made, and the try is entered.
RunTaskEnter ==
  /\ upc = "idle"
  /\ uruns < MaxRuns
  /\ uruns' = uruns + 1
  /\ upc' = "start"
  /\ ulog' = <<>>
  /\ uerr' = "none"
  /\ uanswer' = FALSE
  /\ UNCHANGED <<notRunnerVars, uret>>

\* A run_task that awaits mcp.start() before its try.
McpStartBeforeTry(how) ==
  /\ upc = "start"
  /\ ulog' = Append(ulog, "start")
  /\ IF how = "ok"
       THEN /\ upc' = "conversation"
            /\ UNCHANGED uerr
       ELSE /\ upc' = "leave"
            /\ uerr' = "start"
  /\ UNCHANGED <<notRunnerVars, uruns, uanswer, uret>>

\* try: await mcp.start().  An exception goes to the finally.
McpStart(how) ==
  /\ upc = "start"
  /\ ulog' = Append(ulog, "start")
  /\ IF how = "ok"
       THEN /\ upc' = "conversation"
            /\ UNCHANGED uerr
       ELSE /\ upc' = "stop"
            /\ uerr' = "start"
  /\ UNCHANGED <<notRunnerVars, uruns, uanswer, uret>>

\* answer = await run_mcp_conversation(...); metrics.final_answer = answer.
\* An exception (or a cancellation) goes to the finally.
RunConversation(how) ==
  /\ upc = "conversation"
  /\ ulog' = Append(ulog, "conversation")
  /\ IF how = "answer"
       THEN /\ uanswer' = TRUE
            /\ UNCHANGED uerr
       ELSE /\ uerr' = "conversation"
            /\ UNCHANGED uanswer
  /\ upc' = "stop"
  /\ UNCHANGED <<notRunnerVars, uruns, uret>>

\* finally: await mcp.stop().  If stop() raises, its exception is the one
\* that leaves run_task; else a pending exception goes on, and with none
\* pending the statements after the try are reached.
McpStop(how) ==
  /\ upc = "stop"
  /\ ulog' = Append(ulog, "stop")
  /\ uerr' = IF how = "ok" THEN uerr ELSE "stop"
  /\ upc' = IF how = "ok" /\ uerr = "none" THEN "finalize" ELSE "leave"
  /\ UNCHANGED <<notRunnerVars, uruns, uanswer, uret>>

\* metrics.finalize()
MetricsFinalize ==
  /\ upc = "finalize"
  /\ ulog' = Append(ulog, "finalize")
  /\ upc' = "leave"
  /\ UNCHANGED <<notRunnerVars, uruns, uerr, uanswer, uret>>

\* return metrics, or the exception leaves run_task.
RunTaskLeave ==
  /\ upc = "leave"
  /\ uret' = Append(uret, [raised |-> uerr, log |-> ulog, answer |-> uanswer])
  /\ upc' = "idle"
  /\ UNCHANGED <<notRunnerVars, uruns, ulog, uerr, uanswer>>

\* ------------------------------------------------- the smoke commands
\* The calls on the client the body of a command makes, in order, up to its
\* return 0; the repl makes initialize and then what the lines ask for.
BodyCalls(c, url) ==
  CASE c = "list" ->
         <<"initialize", "tools/list", "resources/list",
           "resources/templates/list">>
    [] c = "call" -> <<"initialize", "arguments-json", "tools/call">>
    [] c = "smoke" ->
         <<"initialize", "launch-browser", "create-session">>
           \o (IF url THEN <<"navigate-url">> ELSE <<>>)
           \o <<"await-stable-state", "get-page-state", "browser-observe">>
    [] c = "repl" -> <<"initialize">>

\* How a call made by a command may end: it returns, it raises an
\* Exception (RpcError, TimeoutError, RuntimeError, ValueError), or the
\* user interrupts it (KeyboardInterrupt, not an Exception).  create-session
\* may also return no session id, or one that is no string.
CallEnds(name) ==
  {"ok", "Exception", "KeyboardInterrupt"}
    \cup (IF name = "create-session" THEN {"no_id", "malformed_id"} ELSE {})

\* Where the finally of a command begins.
FinallyOf(c) == IF c = "smoke" THEN "shutdown" ELSE "close"

\* main() dispatches: the client is constructed and the try is entered.
CmdEnter(c, url) ==
  /\ mpc = "idle"
  /\ cmd' = c
  /\ cmd_url' = url
  /\ mpc' = "body"
  /\ cmd_step' = 1
  /\ UNCHANGED <<notCmdVars, session_id, cmd_log, cmd_exc, repl_lines>>

\* The next call of the body ends as o.  An exception goes to the finally;
\* after the last call of list, call and smoke the command returns 0
\* through the finally, and the repl goes on to read lines.  create-session
\* assigns session_id before the value is tested: a value that is empty or
\* no string raises RuntimeError.
BodyCall(o) ==
  /\ mpc = "body"
  /\ LET calls == BodyCalls(cmd, cmd_url)
         name == calls[cmd_step]
     IN  /\ o \in CallEnds(name)
         /\ session_id' =
              IF name = "create-session"
                THEN CASE o = "ok" -> "id"
                       [] o = "malformed_id" -> "malformed"
                       [] OTHER -> session_id
                ELSE session_id
         /\ cmd_exc' = CASE o = "ok" -> "none"
                         [] o = "KeyboardInterrupt" -> "KeyboardInterrupt"
                         [] OTHER -> "Exception"
         /\ IF o = "ok" /\ cmd_step < Len(calls)
              THEN /\ cmd_step' = cmd_step + 1
                   /\ UNCHANGED mpc
              ELSE /\ mpc' = IF o = "ok" /\ cmd = "repl"
                               THEN "repl" ELSE FinallyOf(cmd)
                   /\ UNCHANGED cmd_step
  /\ UNCHANGED <<notCmdVars, cmd, cmd_url, cmd_log, repl_lines>>

\* The repl reads a line: "quit", the end of input or an interrupt at the
\* prompt break the loop; any other line makes its calls, which end as o,
\* and an exception leaves the loop through the finally.
ReplLine(line, o) ==
  /\ mpc = "repl"
  /\ IF line = "quit"
       THEN /\ o = "ok"
            /\ mpc' = "close"
            /\ UNCHANGED <<cmd_exc, repl_lines>>
       ELSE /\ repl_lines < MaxLines
            /\ repl_lines' = repl_lines + 1
            /\ o \in CallEnds(line)
            /\ cmd_exc' = IF o = "ok" THEN "none" ELSE o
            /\ mpc' = IF o = "ok" THEN "repl" ELSE "close"
  /\ UNCHANGED <<notCmdVars, cmd, cmd_url, cmd_step, session_id, cmd_log>>

\* _cmd_smoke's finally: try: if session_id: _tool_call("shutdown-browser")
\* except Exception: a warning is printed.  Then client.close() follows,
\* unless what the call raised is no Exception: that leaves the finally.
ShutdownBrowser(o) ==
  /\ mpc = "shutdown"
  /\ IF session_id = "None"
       THEN /\ o = "ok"
            /\ mpc' = "close"
            /\ UNCHANGED <<cmd_log, cmd_exc>>
       ELSE /\ o \in CallEnds("shutdown-browser")
            /\ cmd_log' = Append(cmd_log, "shutdown-browser")
            /\ mpc' = IF o = "KeyboardInterrupt" THEN "left" ELSE "close"
            /\ cmd_exc' = IF o = "KeyboardInterrupt" THEN o ELSE cmd_exc
  /\ UNCHANGED <<notCmdVars, cmd, cmd_url, cmd_step, session_id, repl_lines>>

\* client.close(), the last statement of each finally.
ClientClose ==
  /\ mpc = "close"
  /\ cmd_log' = Append(cmd_log, "close")
  /\ mpc' = "left"
  /\ UNCHANGED <<notCmdVars, cmd, cmd_url, cmd_step, session_id, cmd_exc,
                 repl_lines>>

\* ------------------------------------------------------- _read_stdout()
\* One turn of the loop up to the table lookup: readline, strip, json.loads,
\* msg.get("id"), the isinstance test, and "with self._resp_lock: q = get".
\* Taking the line off the pipe commutes with every other thread's steps, so
\* the turn is one step at the lookup.
ReaderRead ==
  /\ rpc = "read"
  /\ stdout # <<>>
  /\ LET line == Head(stdout)
         q == Lookup(resp_by_id, line.id)
     IN  /\ stdout' = Tail(stdout)
         /\ rmsg' = line
         /\ CASE Classify(line) = "skip" ->
                   /\ rpc' = "log"
                   /\ UNCHANGED rq
              [] Classify(line) = "die" ->
                   /\ rpc' = "dead"
                   /\ UNCHANGED rq
              [] Classify(line) = "lookup" /\ q = "none" ->
                   /\ rpc' = "log"
                   /\ UNCHANGED rq
              [] Classify(line) = "lookup" /\ q # "none" ->
                   /\ rpc' = "put"
                   /\ rq' = q
  /\ UNCHANGED <<upperVars, next_id, resp_by_id, proc, stderrPipe, stderrN, stderr_lines,
                 threadVars, epc, closeVars>>

\* self._log_debug(...); continue: the line is dropped.
ReaderDrop ==
  /\ rpc = "log"
  /\ rpc' = "read"
  /\ rmsg' = NoMsg
  /\ UNCHANGED <<upperVars, next_id, resp_by_id, childVars, stderr_lines, threadVars,
                 rq, epc, closeVars>>

\* q.put(msg), outside the lock: blocks while the queue holds an item.
ReaderPut ==
  /\ rpc = "put"
  /\ \/ /\ rq \in Threads
        /\ slot[rq] = NoMsg
        /\ slot' = [slot EXCEPT ![rq] = rmsg]
     \/ /\ rq = "left_empty"
        /\ UNCHANGED slot
  /\ rpc' = "read"
  /\ rmsg' = NoMsg
  /\ rq' = "none"
  /\ UNCHANGED <<upperVars, next_id, resp_by_id, childVars, stderr_lines, pc, req_id, tmp,
                 method, outcome, exitSeen, closeSeen, epc, closeVars>>

\* readline() returns "": the child closed its stdout.
ReaderEof ==
  /\ rpc = "read"
  /\ stdout = <<>>
  /\ proc = "exited"
  /\ rpc' = "eof"
  /\ UNCHANGED <<upperVars, next_id, resp_by_id, childVars, stderr_lines, threadVars,
                 rmsg, rq, epc, closeVars>>

\* ------------------------------------------------------- _read_stderr()
StderrRead ==
  /\ epc = "read"
  /\ stderrPipe # <<>>
  /\ stderr_lines' = Append(stderr_lines, Head(stderrPipe))
  /\ stderrPipe' = Tail(stderrPipe)
  /\ UNCHANGED <<upperVars, next_id, resp_by_id, proc, stdout, stderrN, threadVars,
                 readerVars, epc, closeVars>>

StderrEof ==
  /\ epc = "read"
  /\ stderrPipe = <<>>
  /\ proc = "exited"
  /\ epc' = "eof"
  /\ UNCHANGED <<upperVars, next_id, resp_by_id, childVars, stderr_lines, threadVars,
                 readerVars, closeVars>>

\* ------------------------------------------------------------ the child
ChildEmit(line) ==
  /\ proc = "running"
  /\ Len(stdout) < MaxPipe
  /\ stdout' = Append(stdout, line)
  /\ UNCHANGED <<upperVars, next_id, resp_by_id, proc, stderrPipe, stderrN, stderr_lines,
                 threadVars, readerVars, epc, closeVars>>

\* The diagnostic lines are numbered in the order they are written.
ChildStderr ==
  /\ proc = "running"
  /\ stderrN < MaxStderr
  /\ Len(stderrPipe) < MaxPipe
  /\ stderrN' = stderrN + 1
  /\ stderrPipe' = Append(stderrPipe, stderrN + 1)
  /\ UNCHANGED <<upperVars, next_id, resp_by_id, proc, stdout, stderr_lines,
                 threadVars, readerVars, epc, closeVars>>

ChildExit ==
  /\ proc # "exited"
  /\ proc' = "exited"
  /\ exitSeen' = [t \in Threads |-> exitSeen[t] \/ Unanswered(t)]
  /\ UNCHANGED <<upperVars, next_id, resp_by_id, stdout, stderrPipe, stderrN, stderr_lines,
                 pc, req_id, tmp, method, slot, outcome, closeSeen,
                 readerVars, epc, closeVars>>

\* --------------------------------------------------------------- close()
\* A close() that terminates and waits without asking poll() first.
CloseBeginNoPoll ==
  /\ cpc = "idle"
  /\ closes < MaxCloses
  /\ closes' = closes + 1
  /\ cpc' = "c_wait"
  /\ closeSeen' = [t \in Threads |-> closeSeen[t] \/ Unanswered(t)]
  /\ UNCHANGED <<upperVars, next_id, resp_by_id, childVars, stderr_lines, pc, req_id, tmp,
                 method, slot, outcome, exitSeen, readerVars, epc>>

\* if self._proc.poll() is None: self._proc.terminate()
CloseBegin ==
  /\ cpc = "idle"
  /\ closes < MaxCloses
  /\ closes' = closes + 1
  /\ cpc' = IF Poll(proc) = "None" THEN "c_wait" ELSE "idle"
  /\ closeSeen' = [t \in Threads |-> closeSeen[t] \/ Unanswered(t)]
  /\ UNCHANGED <<upperVars, next_id, resp_by_id, childVars, stderr_lines, pc, req_id, tmp,
                 method, slot, outcome, exitSeen, readerVars, epc>>

\* A close() that swallows TimeoutExpired without the kill.
CloseWaitNoKill ==
  /\ cpc = "c_wait"
  /\ cpc' = "idle"
  /\ UNCHANGED <<upperVars, next_id, resp_by_id, childVars, stderr_lines,
                 threadVars, readerVars, epc, closes>>

\* self._proc.wait(timeout=5) returns once the child has exited; on
\* TimeoutExpired the child is killed and close() returns.
CloseWait ==
  /\ cpc = "c_wait"
  /\ proc' = IF Poll(proc) = "None" THEN "killed" ELSE proc
  /\ cpc' = "idle"
  /\ UNCHANGED <<upperVars, next_id, resp_by_id, stdout, stderrPipe, stderrN, stderr_lines,
                 threadVars, readerVars, epc, closes>>

\* ------------------------------------------------ McpStdioClient.__init__
\* __init__ is entered: the counter and the table are set, no child is
\* spawned and no thread exists yet.
InitConstruct ==
  /\ next_id = 1
  /\ resp_by_id = EmptyTable
  /\ proc = "unspawned"
  /\ stdout = <<>>
  /\ stderrPipe = <<>>
  /\ stderrN = 0
  /\ stderr_lines = <<>>
  /\ pc = [t \in Threads |-> "idle"]
  /\ req_id = [t \in Threads |-> 0]
  /\ tmp = [t \in Threads |-> 0]
  /\ method = [t \in Threads |-> "none"]
  /\ slot = [t \in Threads |-> NoMsg]
  /\ outcome = [t \in Threads |-> NoOutcome]
  /\ exitSeen = [t \in Threads |-> FALSE]
  /\ closeSeen = [t \in Threads |-> FALSE]
  /\ rpc = "unstarted"
  /\ rmsg = NoMsg
  /\ rq = "none"
  /\ epc = "unstarted"
  /\ cpc = "idle"
  /\ closes = 0
  /\ ipc = "popen"
  /\ started = [s \in Streams |-> 0]
  /\ InitHistory /\ InitRunner /\ InitCmd
  /\ InitWrite /\ InitSession /\ InitCatalog(<<>>)
  /\ InitDriver("anthropic", 0)
  /\ InitHarness
  /\ InitMetrics("eval")

\* self._proc = subprocess.Popen(...): the child runs, or Popen raises and
\* the constructor is left with no client made.  The queue and the two
\* Thread objects are then created; nothing runs in them yet.
Popen(how) ==
  /\ ipc = "popen"
  /\ IF how = "ok"
       THEN /\ proc' = "running"
            /\ ipc' = "start_stdout"
       ELSE /\ ipc' = "failed"
            /\ UNCHANGED proc
  /\ UNCHANGED <<notCtorVars, next_id, resp_by_id, stdout, stderrPipe,
                 stderrN, stderr_lines, threadVars, readerVars, epc,
                 closeVars, started>>

\* A constructor that starts the stdout reader a second time where the
\* stderr reader is to be started.
StartStdoutReaderAgain ==
  /\ ipc = "start_stderr"
  /\ rpc' = "read"
  /\ started' = [started EXCEPT !["stdout"] = @ + 1]
  /\ ipc' = "done"
  /\ UNCHANGED <<notCtorVars, next_id, resp_by_id, childVars, stderr_lines,
                 threadVars, rmsg, rq, epc, closeVars>>

\* self._stdout_reader.start()
StartStdoutReader ==
  /\ ipc = "start_stdout"
  /\ rpc' = "read"
  /\ started' = [started EXCEPT !["stdout"] = @ + 1]
  /\ ipc' = "start_stderr"
  /\ UNCHANGED <<notCtorVars, next_id, resp_by_id, childVars, stderr_lines,
                 threadVars, rmsg, rq, epc, closeVars>>

\* self._stderr_reader.start(), the constructor's last statement.
StartStderrReader ==
  /\ ipc = "start_stderr"
  /\ epc' = "read"
  /\ started' = [started EXCEPT !["stderr"] = @ + 1]
  /\ ipc' = "done"
  /\ UNCHANGED <<notCtorVars, next_id, resp_by_id, childVars, stderr_lines,
                 threadVars, readerVars, closeVars>>

\* The client exists once __init__ has returned; the child, once spawned.
Constructed == ipc = "done"
Spawned == proc # "unspawned"

\* ------------------------------------------------------ the history
\* The record of a timeout: the call of t leaves request() with TimeoutError
\* and its finally is about to remove the entry of its id.  The step changes
\* nothing of the program's state.
NoteExpiry(t) ==
  /\ pc[t] = "r_finally"
  /\ outcome[t].kind = "TimeoutError"
  /\ req_id[t] \notin expired
  /\ expired' = expired \cup {req_id[t]}
  /\ UNCHANGED notHistoryVars

\* The timeout of t's call, if it left by one, is on record.
Noted(t) == outcome[t].kind = "TimeoutError" => req_id[t] \in expired

\* ------------------------------------------------------------------ Next
Request(t) ==
  \/ EnterRequest(t, MethodOf(t))
  \/ Raise(t)
  \/ ReadId(t)
  \/ LoadId(t)
  \/ StoreId(t)
  \/ RegisterReq(t)
  \/ WriteReq(t)
  \/ GetResp(t)
  \/ GetTimeout(t)
  \/ TimedOut(t)
  \/ Finally(t)

Reader == ReaderRead \/ ReaderDrop \/ ReaderPut \/ ReaderEof

\* Two request threads race; the child answers with results, in any order
\* and for any id, and may exit.
Next ==
  \/ \E t \in Threads : Request(t)
  \/ Reader
  \/ \E line \in ResultLines : ChildEmit(line)
  \/ ChildExit

Spec == Init /\ [][Next]_vars

\* One request thread; the child writes every kind of line.
NextNoise ==
  \/ \E t \in OneThread : Request(t)
  \/ Reader
  \/ \E line \in Lines : ChildEmit(line)
  \/ ChildExit

SpecNoise == Init /\ [][NextNoise]_vars

\* One request thread; the child answers with every shape of response.
NextRpc ==
  \/ \E t \in OneThread : Request(t)
  \/ Reader
  \/ \E line \in RpcLines : ChildEmit(line)
  \/ ChildExit

SpecRpc == Init /\ [][NextRpc]_vars

\* A client is constructed and then used by one request thread and a
\* notify thread, while the child answers on stdout; the stderr reader
\* meets the end of its stream when the child exits.
NextConstruct ==
  \/ \E how \in {"ok", "raised"} : Popen(how)
  \/ StartStdoutReader
  \/ StartStderrReader
  \/ \E t \in OneThread :
        /\ Constructed
        /\ \/ EnterRequest(t, MethodOf(t))
           \/ Raise(t)
           \/ ReadId(t)
           \/ LoadId(t)
           \/ StoreId(t)
           \/ RegisterReq(t)
           \/ StdinWriteReq(t)
           \/ StdinFlushReq(t)
           \/ GetResp(t)
           \/ GetTimeout(t)
           \/ TimedOut(t)
           \/ Finally(t)
  \/ Constructed /\ (NotifyEnter \/ StdinWriteNotify \/ StdinFlushNotify)
  \/ Reader
  \/ StderrEof
  \/ Spawned /\ \E line \in ResultLines : ChildEmit(line)
  \/ Spawned /\ ChildExit

SpecConstruct == InitConstruct /\ [][NextConstruct]_vars

\* Spec, with the timeouts kept on record: no call that timed out leaves
\* before its id is recorded.
NextLate ==
  \/ \E t \in Threads :
        \/ EnterRequest(t, MethodOf(t))
        \/ Raise(t)
        \/ ReadId(t)
        \/ LoadId(t)
        \/ StoreId(t)
        \/ RegisterReq(t)
        \/ WriteReq(t)
        \/ GetResp(t)
        \/ GetTimeout(t)
        \/ TimedOut(t)
        \/ NoteExpiry(t)
        \/ Noted(t) /\ Finally(t)
  \/ Reader
  \/ \E line \in ResultLines : ChildEmit(line)
  \/ ChildExit

SpecLate == Init /\ [][NextLate]_vars

\* The threads are scheduled and q.get(timeout=...) returns when its time is
\* up: the request thread and the reader take every step that stays open to
\* them.
SpecRpcFair ==
  /\ SpecRpc
  /\ \A t \in OneThread : WF_vars(Request(t))
  /\ WF_vars(Reader)

\* run_task is called for one run after the other; mcp.start(), the
\* conversation and mcp.stop() may each fail.
NextRunner ==
  \/ RunTaskEnter
  \/ \E how \in {"ok", "raised"} : McpStart(how)
  \/ \E how \in {"answer", "raised"} : RunConversation(how)
  \/ \E how \in {"ok", "raised"} : McpStop(how)
  \/ MetricsFinalize
  \/ RunTaskLeave

SpecRunner == Init /\ [][NextRunner]_vars

\* One run of the script: a command is chosen and runs; every call it
\* makes may return, raise or be interrupted.
NextCmd ==
  \/ \E c \in {"list", "call", "smoke", "repl"} :
       \E url \in BOOLEAN : CmdEnter(c, url)
  \/ \E o \in {"ok", "Exception", "KeyboardInterrupt", "no_id",
               "malformed_id"} : BodyCall(o)
  \/ \E line \in {"quit", "tools", "call"} :
       \E o \in {"ok", "Exception", "KeyboardInterrupt"} : ReplLine(line, o)
  \/ \E o \in {"ok", "Exception", "KeyboardInterrupt"} : ShutdownBrowser(o)
  \/ ClientClose

SpecCmd == Init /\ [][NextCmd]_vars

\* One request thread and a thread that calls close().
NextClose ==
  \/ \E t \in OneThread : Request(t)
  \/ Reader
  \/ \E line \in ResultLines : ChildEmit(line)
  \/ ChildExit
  \/ CloseBegin
  \/ CloseWait

SpecClose == Init /\ [][NextClose]_vars

\* The threads are scheduled, q.get(timeout=...) and wait(timeout=5) return
\* when their time is up, and a killed child exits.
SpecCloseFair ==
  /\ SpecClose
  /\ \A t \in OneThread : WF_vars(Request(t))
  /\ WF_vars(Reader)
  /\ WF_vars(CloseWait)
  /\ WF_vars(proc = "killed" /\ ChildExit)

\* The diagnostic stream: the child writes stderr lines and never answers.
NextTail ==
  \/ \E t \in OneThread :
        \/ EnterRequest(t, MethodOf(t))
        \/ Raise(t)
        \/ ReadId(t)
        \/ LoadId(t)
        \/ StoreId(t)
        \/ RegisterReq(t)
        \/ WriteReq(t)
        \/ GetTimeout(t)
        \/ TimedOut(t)
        \/ Finally(t)
  \/ ChildStderr
  \/ StderrRead
  \/ StderrEof
  \/ ChildExit

SpecTail == Init /\ [][NextTail]_vars

\* The writers: two request threads and a notify thread write to the
\* child's stdin.  The child does not answer and no timeout runs out while
\* they write, so each request thread sends one request.
NextWrite ==
  \/ \E t \in Threads :
        \/ EnterRequest(t, MethodOf(t))
        \/ Raise(t)
        \/ ReadId(t)
        \/ LoadId(t)
        \/ StoreId(t)
        \/ RegisterReq(t)
        \/ StdinWriteReq(t)
        \/ StdinFlushReq(t)
  \/ NotifyEnter
  \/ StdinWriteNotify
  \/ StdinFlushNotify
  \/ ChildExit

SpecWrite == Init /\ [][NextWrite]_vars

\* One caller uses an MCPClient, one call after the other and in any order;
\* every awaited call may succeed or fail.
NextSession ==
  \/ \E how \in {"ok", "spawn_failed", "init_failed"} : Start(how)
  \/ \E how \in {"ok", "failed"} : Stop(how)
  \/ \E how \in {"ok", "failed"} : \E k \in 0 .. MaxTools : ListTools(how, k)
  \/ \E how \in {"ok", "failed"} : CallTool(how)

SpecSession == Init /\ [][NextSession]_vars

\* A catalog is adapted, the model calls one of the tools by name, and the
\* call is dispatched.
NextAdapt ==
  \/ AdaptCatalog
  \/ \E i \in 1 .. MaxTools : ModelCall(i)
  \/ DispatchCall

SpecAdapt == InitAdapt /\ [][NextAdapt]_vars

\* One conversation of either driver, with any model and any tools.
NextConv ==
  \/ \E how \in {"ok", "raised"} : ConvStart(how)
  \/ BeginCreate
  \/ \E how \in {"ok", "raised"} :
       \E r \in Responses(driver) : CreateMessage(how, r)
  \/ BeginDispatch
  \/ \E o \in CallOutcomes(driver) : DispatchBlock(o)
  \/ EndDispatch
  \/ BeginFinal
  \/ \E how \in {"ok", "raised"} :
       \E r \in FinalResponses(driver) : FinalCall(how, r)

\* One run of the harness over its conditions, tasks and runs.
NextHarness ==
  \/ \E how \in {"ok", "raised"} : HarnessSetup(how)
  \/ \E o \in {"ok", "raised", "judge_raised"} : RunTask(o)
  \/ \E how \in {"ok", "raised"} : HarnessTeardown(how)

SpecHarness == Init /\ [][NextHarness]_vars

\* Turns are recorded in a TaskMetrics and finalize() is called, in any
\* order and any number of times.
NextMetrics ==
  \/ \E t \in TurnMetrics(variant) : RecordTurn(t)
  \/ Finalize

SpecMetrics == InitFinalize /\ [][NextMetrics]_vars

\* The driver is one coroutine: it goes on whenever the call it waits for
\* has come back.
SpecConv == InitConv /\ [][NextConv]_vars /\ WF_vars(NextConv)

\* ==================================================================
\* The claims
\* ==================================================================
Others(t) == Threads \ {t}

\* C1: a response is handed only to the request whose id it carries.  In
\* every state a queued response, the response the reader is about to put, and
\* the response a call leaves with all carry the id of the call that owns the
\* queue, whatever the order the child answers in.
C1_ResponseToOwnRequest ==
  /\ \A t \in Threads : slot[t] # NoMsg => slot[t].id = req_id[t]
  /\ (rpc = "put" /\ rq \in Threads) => rmsg.id = req_id[rq]
  /\ \A t \in Threads :
       outcome[t].kind \in {"Result", "RpcError"} =>
         /\ outcome[t].rid = req_id[t]
         /\ outcome[t].id = req_id[t]

\* The child answers request 2 before request 1: t2 leaves with its result
\* while t1 still waits.
C1_Witness ==
  /\ req_id["t1"] = 1 /\ pc["t1"] = "r_wait" /\ slot["t1"] = NoMsg
  /\ req_id["t2"] = 2 /\ outcome["t2"].kind = "Result"

\* C2: no two request() calls that are outstanding at the same time hold the
\* same id.
C2_OutstandingIdsDistinct ==
  \A t \in Threads : \A u \in Others(t) :
    (pc[t] \in Registered /\ pc[u] \in Registered) => req_id[t] # req_id[u]

\* C3: a request whose wait times out while the child is running fails with
\* TimeoutError naming its method and id; when it leaves, its id is no key of
\* the table, and the table is empty whenever no request is registered (so a
\* lone call leaves the table the size it found it).
C3_TimeoutLeavesNoEntry ==
  /\ [][\A t \in Threads :
          (pc[t] = "r_timedout" /\ pc'[t] = "r_finally" /\ proc # "exited") =>
            /\ outcome'[t].kind = "TimeoutError"
            /\ outcome'[t].method = MethodOf(t)
            /\ outcome'[t].id = req_id[t]]_vars
  /\ [][\A t \in Threads :
          (pc[t] = "r_finally" /\ outcome[t].kind = "TimeoutError"
             /\ pc'[t] = "idle") =>
            /\ req_id[t] \notin DOMAIN resp_by_id'
            /\ (\A u \in Others(t) : pc[u] \notin Registered) =>
                 resp_by_id' = EmptyTable]_vars
  /\ []((\A t \in Threads : pc[t] \notin Registered) => resp_by_id = EmptyTable)

\* A call is about to leave with TimeoutError while the child runs.
C3_Witness ==
  /\ proc = "running"
  /\ pc["t1"] = "r_finally"
  /\ outcome["t1"].kind = "TimeoutError"
  /\ req_id["t1"] \in DOMAIN resp_by_id

\* C4: the keys of the table are exactly the ids of the calls that have
\* registered and not yet left.
C4_KeysAreOutstandingIds ==
  DOMAIN resp_by_id = {req_id[t] : t \in {u \in Threads : pc[u] \in Registered}}

C6_InFlightFailsWithProcessExited ==
  \A t \in Threads :
    (closeSeen[t] /\ outcome[t] # NoOutcome) => outcome[t].kind = "ProcessExited"

\* C6, amended: close() completes and leaves the child exited or killed; the
\* request that was blocked when close() began leaves request(); when its
\* wait times out it fails with the process-exited error if the child has
\* exited by then, and with TimeoutError if the child still runs.
C6_CloseNeverHangsRequest ==
  /\ (cpc = "c_wait") ~> (cpc = "idle")
  /\ []((closes > 0 /\ cpc = "idle") => proc # "running")
  /\ \A t \in OneThread : closeSeen[t] ~> ~closeSeen[t]
  /\ [][\A t \in OneThread :
          (closeSeen[t] /\ pc[t] = "r_timedout" /\ pc'[t] = "r_finally") =>
            outcome'[t].kind =
              (IF proc = "exited" THEN "ProcessExited" ELSE "TimeoutError")]_vars

\* close() has returned and the request that was in flight has failed with
\* the process-exited error.
C6_Witness ==
  /\ closes > 0 /\ cpc = "idle"
  /\ closeSeen["t1"] /\ pc["t1"] = "r_finally"
  /\ outcome["t1"].kind = "ProcessExited"

Min(a, b) == IF a <= b THEN a ELSE b

\* The last k of the lines 1 .. n.
LastLines(n, k) == [i \in 1 .. k |-> n - k + i]

\* C7: the process-exited error carries the last min(50, n) of the n stderr
\* lines captured so far, for every request that observes the exit.
C7_TailIsLastLines ==
  \A t \in Threads :
    outcome[t].kind = "ProcessExited" =>
      outcome[t].tail =
        LastLines(outcome[t].cap, Min(StderrTailMax, outcome[t].cap))

\* The reader takes the line at the head of the pipe, and it is of kind k.
ReaderTakes(k) ==
  /\ rpc = "read"
  /\ stdout # <<>>
  /\ Head(stdout).k = k
  /\ stdout' = Tail(stdout)

\* C8: a non-JSON stdout line changes neither the table nor any queue nor
\* any request, and the reader goes on to the next line.
C8_NonJsonLineIsHarmless ==
  /\ [][ReaderTakes("nonjson") =>
          /\ rpc' = "log"
          /\ UNCHANGED <<resp_by_id, slot, pc, outcome>>]_vars
  /\ [][(rpc = "log" /\ rmsg.k = "nonjson" /\ rpc' # "log") =>
          /\ rpc' = "read"
          /\ UNCHANGED <<resp_by_id, slot, pc, outcome, stdout>>]_vars

\* The request has its result while the reader drops a non-JSON line that
\* followed the response.
C8_Witness ==
  /\ rpc = "log" /\ rmsg.k = "nonjson"
  /\ pc["t1"] = "r_finally"
  /\ outcome["t1"].kind = "Result"
  /\ outcome["t1"].rid = req_id["t1"]

\* C9: no stdout line stops the reader loop, and only responses with an
\* integer id are ever queued.
C9_InvalidLinesNeverStopReader ==
  /\ rpc # "dead"
  /\ \A t \in Threads : slot[t].k \in {"none", "resp"}

\* C10: a response whose id is no key of the table, and a notification,
\* are dropped: the table, the queues and the requests stay as they are.
C10_UnknownIdAndNotificationDropped ==
  /\ [][(\/ ReaderTakes("notif")
         \/ ReaderTakes("resp") /\ Head(stdout).id \notin DOMAIN resp_by_id) =>
          /\ rpc' = "log"
          /\ UNCHANGED <<resp_by_id, slot, pc, outcome>>]_vars
  /\ [][(rpc = "log" /\ rmsg.k \in {"notif", "resp"} /\ rpc' # "log") =>
          /\ rpc' = "read"
          /\ UNCHANGED <<resp_by_id, slot, pc, outcome, stdout>>]_vars

\* The reader drops a response for an id nobody waits for while a request
\* with another id waits.
C10_Witness ==
  /\ rpc = "log" /\ rmsg.k = "resp"
  /\ pc["t1"] = "r_wait" /\ slot["t1"] = NoMsg
  /\ rmsg.id # req_id["t1"]
  /\ DOMAIN resp_by_id = {req_id["t1"]}

\* C11: a delivered response has two outcomes and no other.  If it carries an
\* error object, request() raises RpcError holding that object; if its error
\* is absent or null, request() returns its result payload (None when it has
\* none).
C11_ErrorObjectOrResult ==
  /\ [][\A t \in OneThread :
          (pc[t] = "r_wait" /\ slot[t] # NoMsg /\ pc'[t] # "r_wait") =>
            /\ pc'[t] = "r_finally"
            /\ outcome'[t].kind \in {"RpcError", "Result"}
            /\ outcome'[t].body = slot[t].body]_vars
  /\ [](\A t \in OneThread :
          outcome[t].kind \in {"RpcError", "Result"} =>
            IF outcome[t].body \in {"error", "emptyerror"}
              THEN /\ outcome[t].kind = "RpcError"
                   /\ outcome[t].value =
                        (IF outcome[t].body = "error" THEN "e" ELSE "{}")
              ELSE /\ outcome[t].kind = "Result"
                   /\ outcome[t].value =
                        (IF outcome[t].body = "neither" THEN "None" ELSE "r"))

\* A response whose error member is null has been taken: the call returns
\* its result.
C11_Witness ==
  /\ pc["t1"] = "r_finally"
  /\ outcome["t1"].body = "nullerror"
  /\ outcome["t1"].kind = "Result"

\* An error response has been taken: the call raises RpcError with the object.
C11_WitnessError ==
  /\ pc["t1"] = "r_finally"
  /\ outcome["t1"].kind = "RpcError"
  /\ outcome["t1"].value = "e"

\* C12: a slot receives one response and never a second: a call that has
\* taken its response (and leaves with a result or RpcError) has nothing more
\* put into its queue.
C12_AtMostOneResponsePerSlot ==
  \A t \in OneThread :
    outcome[t].kind \in {"Result", "RpcError"} => slot[t] = NoMsg

\* close() is called: a step of its first statement.
CloseCalled == cpc = "idle" /\ closes' = closes + 1

\* C13 as stated: a second call of close() does nothing.
C13_SecondCloseDoesNothing ==
  [][(CloseCalled /\ closes >= 1) => (cpc' = "idle" /\ proc' = proc)]_vars

\* C13, amended: close() on a child that has exited does nothing; on a child
\* that has not, it terminates, waits a bounded time and returns with the
\* child exited or killed, so that after any close() the child never runs.  A
\* second call does nothing once the child has exited; while the child
\* killed by the first call has not exited yet, it terminates and waits again.
C13_CloseIsSafeAndIdempotent ==
  /\ [][(CloseCalled /\ proc = "exited") =>
          (cpc' = "idle" /\ proc' = proc)]_vars
  /\ [][(CloseCalled /\ proc # "exited") => (cpc' = "c_wait")]_vars
  /\ [][(cpc = "c_wait" /\ cpc' = "idle") => proc' \in {"exited", "killed"}]_vars
  /\ (cpc = "c_wait") ~> (cpc = "idle")
  /\ [][(CloseCalled /\ closes >= 1) => proc # "running"]_vars
  /\ [][(closes >= 1 /\ proc # "running") => proc' # "running"]_vars

\* The first close() killed the child and returned; the second call finds it
\* not yet exited and waits again.
C13_Witness == closes = 2 /\ cpc = "c_wait" /\ proc = "killed"

\* The line of writer w as the child must receive it.
Line(w) == Payload(w) \o <<NL>>

\* The bytes are whole lines, one after the other.
RECURSIVE WholeLines(_)
WholeLines(bytes) ==
  IF bytes = <<>>
    THEN TRUE
    ELSE /\ Len(bytes) >= 3
         /\ \E w \in Writers : SubSeq(bytes, 1, 3) = Line(w)
         /\ WholeLines(SubSeq(bytes, 4, Len(bytes)))

C15_HandshakeBeforeOperations ==
  /\ \A i \in 1 .. Len(wire) :
        wire[i] \in {"tools/list", "tools/call"} =>
          \E j \in 1 .. i - 1 : wire[j] = "notifications/initialized"
  /\ \A i \in 1 .. Len(wire) :
        wire[i] = "notifications/initialized" =>
          (i = 2 /\ wire[1] = "initialize")

\* A call of list_tools() is made and ends.
ListToolsCalled == ops' = ops + 1 /\ mret'.op = "list_tools"

StopReturned == ops' = ops + 1 /\ mret' = Return("stop", "ok", <<>>, FALSE)

\* The tools of a catalog are those of the server of session n.
CatalogOf(ts, n) ==
  \A i \in 1 .. Len(ts) : ts[i].name \in {10 * n + j : j \in 1 .. MaxTools}

\* C17: a stop() that returns leaves no session and no cache, and start()
\* does not bring a cache back; so the first list_tools() of the session
\* that follows finds no cache, makes the round trip, and what it returns
\* and caches is the catalog of that session.
C17_FreshSessionFreshCache ==
  /\ [][StopReturned => (session' = NoSession /\ tools_cache' = NoCache)]_vars
  /\ [][(ops' = ops + 1 /\ mret'.op = "start") => UNCHANGED tools_cache]_vars
  /\ [][(ListToolsCalled /\ ~tools_cache.has /\ mret'.kind = "ok") =>
          /\ mret'.roundtrip
          /\ wire' = Append(wire, "tools/list")
          /\ CatalogOf(mret'.value, session)
          /\ tools_cache' = Cache(mret'.value)]_vars

\* The second session has fetched and cached its own catalog; the first
\* session had fetched one too.
C17_Witness ==
  /\ session = 2
  /\ listOk[1] = 1 /\ listOk[2] = 1
  /\ tools_cache.has /\ Len(tools_cache.tools) = MaxTools
  /\ CatalogOf(tools_cache.tools, 2)
  /\ mret = Return("list_tools", "ok", tools_cache.tools, TRUE)

\* C18: the adapted catalog has as many entries as the catalog, in the same
\* order; entry i has the name of descriptor i and its schema under the key
\* input_schema; and a call the model issues by the name of entry i reaches
\* descriptor i and no other.
C18_AdaptKeepsNamesAndOrder ==
  /\ tools.has =>
       /\ Len(tools.tools) = Len(catalog)
       /\ \A i \in 1 .. Len(catalog) :
            /\ tools.tools[i].name = catalog[i].name
            /\ tools.tools[i].input_schema = catalog[i].inputSchema
            /\ DOMAIN tools.tools[i] = {"name", "description", "input_schema"}
  /\ dispatched # {} => dispatched = {call.idx}
  /\ (call # NoCall /\ ~ENABLED DispatchCall) => dispatched # {}

\* The call of the second of two tools has reached the second descriptor.
C18_Witness ==
  /\ Len(catalog) = 2
  /\ call.idx = 2
  /\ dispatched = {2}

\* A dispatch of this turn has raised and the driver has made k calls of
\* the model.
RaisedInTurn(k) ==
  /\ dpc \in {"dispatch", "in_call"}
  /\ \E i \in 1 .. Len(payloads) : payloads[i] = "raised"
  /\ Len(model_calls) = k

\* C19: a tool dispatch that raises never ends run_mcp_conversation: its
\* result is appended flagged as an error, every tool call of the turn has
\* its result before the driver goes on, and the next call of the model is
\* made.
C19_ToolFailureIsLocal ==
  /\ [](raised_by # "tool")
  /\ [](\A i \in 1 .. Len(payloads) :
          payloads[i] = "raised" =>
            /\ i <= Len(tool_results)
            /\ ErrorFlagged(tool_results[i]))
  /\ []((dpc \in {"model", "final"} /\ turn_idx > 0) =>
          Len(tool_results) = response.blocks)
  /\ \A k \in 0 .. MaxTurns + 1 :
       RaisedInTurn(k) ~> (Len(model_calls) > k)

\* The first of two tool calls has raised, the second was dispatched, and
\* the driver has called the model again.
C19_Witness ==
  /\ Len(payloads) = 2
  /\ payloads[1] = "raised"
  /\ ErrorFlagged(tool_results[1])
  /\ Len(model_calls) = 2

\* C20: a result whose payload has isError set is passed on flagged as an
\* error, and the result of a successful payload is not flagged.
C20_PayloadErrorIsFlagged ==
  \A i \in 1 .. Len(payloads) :
    (driver = "anthropic" /\ payloads[i] \in {"ok", "is_error"}
       /\ i <= Len(tool_results)) =>
      ErrorFlagged(tool_results[i]) = ToolPayload(payloads[i]).isError

\* Every response to a call that offered the tools held a tool call.
EveryTurnRequestedTools ==
  \A i \in 1 .. Len(turns) :
    turns[i].turn < max_turns => turns[i].tool_calls >= 1

\* The calls of the model are max_turns with tools and then one without.
AllTurnsThenFinal ==
  /\ Len(model_calls) = max_turns + 1
  /\ \A i \in 1 .. max_turns : model_calls[i].tools
  /\ ~model_calls[max_turns + 1].tools

\* With a budget of at least one the driver never makes more than
\* max_turns + 1 calls of the model.
ModelCallsBounded ==
  max_turns >= 1 => Len(model_calls) <= max_turns + 1

\* With a budget of at least one the driver comes to an end.
ConversationEnds ==
  max_turns >= 1 => <>(dpc \in {"done", "raised"})

\* C21: with a budget N of at least one the driver makes at most N + 1
\* calls of the model and comes to an end, and when every response held a
\* tool call it has made exactly N + 1 calls, N with tools and then the one
\* without, when it returns.
C21_TerminatesWithinBudget ==
  /\ []ModelCallsBounded
  /\ ConversationEnds
  /\ []((max_turns >= 1 /\ dpc = "done" /\ EveryTurnRequestedTools) =>
          AllTurnsThenFinal)

\* The texts the response r to model call c holds, as the model wrote them.
ResponseTexts(c, r) ==
  IF r.stop_reason = "max_tokens"
    THEN <<PartText(c, 1), PartText(c, 2)>>
    ELSE <<PartText(c, 1)>>

\* The texts of a returned answer, without the line breaks between them.
NotNewline(x) == x # Newline
AnswerTexts == SelectSeq(answer.text, NotNewline)

\* No tool has been dispatched in this conversation.
NothingDispatched ==
  /\ payloads = <<>>
  /\ tool_results = <<>>
  /\ \A op \in running : op.op # "tool"
  /\ \A i \in 1 .. Len(messages) : messages[i].kind # "tool_results"

\* C22: when the first response of the model holds no tool call, the driver
\* has made one call of the model, has dispatched nothing, has recorded one
\* Turn and has returned the texts of that response.
C22_NoToolCallReturnsFirstText ==
  (Len(turns) >= 1 /\ turns[1].tool_calls = 0) =>
    /\ dpc = "done"
    /\ Len(model_calls) = 1
    /\ NothingDispatched
    /\ Len(turns) = 1
    /\ answer.has
    /\ AnswerTexts = ResponseTexts(1, response)
    /\ Len(answer.text) = 2 * Len(AnswerTexts) - 1

\* The first response held two texts and no tool call, and was returned.
C22_Witness ==
  /\ max_turns >= 1
  /\ Len(turns) = 1
  /\ turns[1].tool_calls = 0
  /\ response.stop_reason = "max_tokens"
  /\ answer = Answer(<<PartText(1, 1), Newline, PartText(1, 2)>>)

\* A step in which the response to a call that offered the tools arrives.
ResponseArrives ==
  /\ dpc = "in_model"
  /\ Len(turns') = Len(turns) + 1

\* C23: when the response of a turn arrives the driver is done exactly when
\* the response holds no tool call, and goes to the dispatches exactly when
\* it holds at least one.
C23_DoneIffNoToolCalls ==
  [][ResponseArrives =>
       /\ (dpc' = "done") <=> (response'.blocks = 0)
       /\ (dpc' = "dispatch") <=> (response'.blocks >= 1)]_vars

\* The calls of the model made without tools, and the instructions to
\* give the final answer in the transcript.
FinalCalls == {i \in 1 .. Len(model_calls) : ~model_calls[i].tools}
FinalInstructions ==
  {i \in 1 .. Len(messages) : messages[i] = FinalInstruction}

\* Each of the max_turns turns has been made and its response held a tool
\* call.
AllTurnsRequestedTools ==
  \A k \in 1 .. max_turns :
    /\ k <= Len(turns)
    /\ turns[k].turn = k - 1
    /\ turns[k].tool_calls >= 1

\* The call without tools is the last thing the driver does: the
\* instruction is the last message it was given, nothing is dispatched
\* after it, and its text is returned.
FinalCallIsLast ==
  \A i \in FinalCalls :
    /\ i = Len(model_calls)
    /\ Cardinality(FinalInstructions) = 1
    /\ messages[Len(messages)] = FinalInstruction
    /\ model_calls[i].messages = Len(messages)
    /\ dpc \in {"in_final", "done", "raised"}
    /\ \A op \in running : op.op # "tool"
    /\ dpc = "done" => AnswerTexts = ResponseTexts(i, response)

\* C24: the call without tools is made once when each of the N turns ended
\* with tool calls and never otherwise; the instruction is appended before
\* it, no tool is dispatched after it and its text is the answer.
C24_ForcedFinalCallOnce ==
  /\ Cardinality(FinalCalls) <= 1
  /\ FinalCallIsLast
  /\ dpc = "done" => (Cardinality(FinalCalls) = 1 <=> AllTurnsRequestedTools)

\* The identifier a result bears: tool_use_id, or the name of the function.
TagOf(r) == IF "tool_use_id" \in DOMAIN r THEN r.tool_use_id ELSE r.name

\* The results res answer the first Len(res) tool calls of the response
\* content, one each, in their order, each bearing the identifier of its
\* call.
ResultsAnswer(res, content) ==
  /\ Len(res) <= Len(ToolUseBlocks(content))
  /\ \A i \in 1 .. Len(res) : TagOf(res[i]) = ToolUseBlocks(content)[i].id

\* C25: in the transcript every entry of results comes right after the
\* response it answers and holds one result per tool call of that response,
\* in the order of the calls, each with the identifier of its call; while
\* the dispatches go on, the response is the last entry and the results
\* collected so far answer its first calls.
C25_ResultsFollowResponseInOrder ==
  /\ \A p \in 1 .. Len(messages) :
       /\ messages[p].kind = "tool_results" =>
            /\ p > 1
            /\ messages[p - 1].kind = "response"
            /\ ResultsAnswer(messages[p].results, messages[p - 1].content)
            /\ Len(messages[p].results) =
                 Len(ToolUseBlocks(messages[p - 1].content))
       /\ (messages[p].kind = "response" /\ p < Len(messages)) =>
            messages[p + 1].kind = "tool_results"
  /\ dpc \in {"dispatch", "in_call"} =>
       /\ messages[Len(messages)].kind = "response"
       /\ ResultsAnswer(tool_results, messages[Len(messages)].content)
       /\ Len(tool_results) = block_idx - 1

\* The results of two tool calls, of which the first failed, are in the
\* transcript.
C25_Witness ==
  \E p \in 1 .. Len(messages) :
    /\ messages[p].kind = "tool_results"
    /\ Len(messages[p].results) = 2
    /\ ErrorFlagged(messages[p].results[1])
    /\ ~ErrorFlagged(messages[p].results[2])

\* C26: at most one call is under way in a conversation, of the model or of
\* a tool; a tool call under way is the next in the order of the response
\* after those that have ended; and while a call of the model is under way
\* every tool call of the turn before has ended.
C26_CallsNeverOverlap ==
  /\ Cardinality(running) <= 1
  /\ \A op \in running :
       /\ op.op = "tool" =>
            /\ op.n = Len(payloads) + 1
            /\ op.n <= response.blocks
       /\ op.op = "model" =>
            /\ op.n = Len(model_calls)
            /\ turn_idx > 0 => Len(payloads) = response.blocks

\* The second call of the model is under way after the two tool calls of
\* the first turn have ended.
C26_Witness ==
  /\ running = {[op |-> "model", n |-> 2]}
  /\ Len(payloads) = 2
  /\ turn_idx = 1

\* The calls of the model that have come back with a response.
CompletedCalls ==
  {i \in 1 .. Len(model_calls) :
     /\ [op |-> "model", n |-> i] \notin running
     /\ ~(raised_by = "model" /\ i = Len(model_calls))}

\* One Turn per call of the model that came back, numbered from 0 in the
\* order of the calls; the Turn of the call without tools has the number
\* max_turns and counts no tool call.
TurnsMatchCalls ==
  max_turns >= 0 =>
    /\ Len(turns) = Cardinality(CompletedCalls)
    /\ \A i \in 1 .. Len(turns) :
         /\ turns[i].turn = i - 1
         /\ i \in FinalCalls =>
              /\ turns[i].turn = max_turns
              /\ turns[i].tool_calls = 0

\* A step leaves the Turns as they are or appends one.
TurnsOnlyAppended ==
  \/ turns' = turns
  \/ /\ Len(turns') = Len(turns) + 1
     /\ SubSeq(turns', 1, Len(turns)) = turns

\* C27: for a budget N that is not negative, the Turns are one per call of
\* the model that came back, numbered 0, 1, ... in that order, the Turn of
\* the forced final call has the number N and no tool calls, and a Turn
\* once recorded is never changed or removed.
C27_OneTurnPerRoundTrip ==
  /\ []TurnsMatchCalls
  /\ [][TurnsOnlyAppended]_vars

\* Two turns and the forced final call have each left their Turn.
C27_Witness ==
  /\ max_turns = 2
  /\ dpc = "done"
  /\ Len(turns) = 3
  /\ turns[3] = [turn |-> 2, tool_calls |-> 0]

\* C28: when a call of the model raises, the failure leaves
\* run_mcp_conversation: the driver has ended by raising, has returned no
\* answer, has no call under way, has recorded a Turn for every call but
\* the failed one, and the failed call is the last it made.
C28_ModelFailurePropagates ==
  raised_by = "model" =>
    /\ dpc = "raised"
    /\ ~answer.has
    /\ running = {}
    /\ Len(turns) = Len(model_calls) - 1
    /\ ~ENABLED NextConv

\* The forced final call has raised after a turn that was recorded.
C28_Witness ==
  /\ raised_by = "model"
  /\ Len(model_calls) = 2
  /\ ~model_calls[2].tools
  /\ Len(turns) = 1

\* A call with the tools has raised in the second turn.
C28_WitnessInLoop ==
  /\ raised_by = "model"
  /\ Len(model_calls) = 2
  /\ model_calls[2].tools

\* The place of the run r of the task t under the condition c in the order
\* of the three loops.
IterIndex(c, t, r) == ((c - 1) * MaxTasks + (t - 1)) * MaxRuns + r + 1

\* C29: a run that fails never ends run_harness: it is recorded as one
\* failed outcome with the detail and the traceback; the outcomes recorded
\* are one per run made, in the order of the loops; and when run_harness
\* returns there is one for every condition, task and run.
C29_FailedRunIsRecorded ==
  /\ hraised_by \notin {"run_task", "judge"}
  /\ Len(all_metrics) = Len(run_outcomes)
  /\ \A i \in 1 .. Len(all_metrics) :
       /\ IterIndex(all_metrics[i].condition, all_metrics[i].task_id,
                    all_metrics[i].run) = i
       /\ run_outcomes[i] # "ok" =>
            /\ all_metrics[i].correct = "False"
            /\ all_metrics[i].final_answer = "ERROR: detail"
            /\ all_metrics[i].error_traceback = "traceback"
  /\ hpc = "returned" =>
       Len(all_metrics) = MaxConditions * MaxTasks * MaxRuns

\* The harness has returned after a run of the first condition failed.
C29_Witness ==
  /\ hpc = "returned"
  /\ run_outcomes[2] = "raised"
  /\ all_metrics[2].correct = "False"
  /\ all_metrics[Len(all_metrics)].condition = MaxConditions

\* The units of a field over the recorded Turns: one pair for each unit of
\* each Turn.
FieldUnits(f) ==
  {<<i, u>> \in (1 .. Len(self_turns)) \X (1 .. 3) : u <= self_turns[i][f]}

\* The places where the name stands in the name lists of the Turns.
Occurrences(name) ==
  {<<i, j>> \in (1 .. Len(self_turns)) \X (1 .. 2) :
     /\ j <= Len(self_turns[i].tools_called)
     /\ self_turns[i].tools_called[j] = name}

\* The totals and the map are those of the recorded Turns.
TotalsAreSums ==
  /\ totals.total_input_tokens = Cardinality(FieldUnits("input_tokens"))
  /\ totals.total_output_tokens = Cardinality(FieldUnits("output_tokens"))
  /\ totals.total_tool_calls = Cardinality(FieldUnits("tool_calls"))
  /\ totals.total_wall_clock_s = Cardinality(FieldUnits("wall_clock_s"))
  /\ variant = "evalGemini" =>
       /\ DOMAIN tool_usage = {n \in ToolNames : Occurrences(n) # {}}
       /\ \A n \in DOMAIN tool_usage :
            tool_usage[n] = Cardinality(Occurrences(n))

\* C30: after finalize() each total is the sum of its field over the Turns
\* and the map holds for each name the times it stands in the name lists;
\* finalize() leaves the Turns as they are; and a second finalize() with
\* no Turn in between changes neither the totals nor the map.
C30_FinalizeSumsTurns ==
  /\ [](finalizes >= 1 => TotalsAreSums)
  /\ [][finalizes' # 0 => self_turns' = self_turns]_vars
  /\ [][(finalizes >= 1 /\ finalizes' = 2) =>
          (totals' = totals /\ tool_usage' = tool_usage)]_vars

\* finalize() was called twice on two Turns that name the same tool.
C30_Witness ==
  /\ finalizes = 2
  /\ Len(self_turns) = 2
  /\ variant = "evalGemini"
  /\ "a" \in DOMAIN tool_usage
  /\ tool_usage["a"] = 3
  /\ totals.total_tool_calls = 4


\* C31: both background readers are started before the client writes its
\* first message (every step that hands bytes to self._stdin is taken with
\* the stdout reader and the stderr reader already started), and start() is
\* called at most once on the reader of each stream.
WritesToStdin == stdin' # stdin \/ pending' # pending
BothReadersStarted ==
  /\ \A s \in Streams : started[s] = 1
  /\ rpc # "unstarted"
  /\ epc # "unstarted"
C31_ReadersStartedBeforeFirstWrite ==
  /\ [](\A s \in Streams : started[s] <= 1)
  /\ [][WritesToStdin => BothReadersStarted]_vars

\* C31 witness: the constructor has returned and a whole message has reached
\* the child's stdin.
C31_Witness ==
  /\ ipc = "done"
  /\ BothReadersStarted
  /\ stdin # <<>>


\* C32: when the wait for a response times out, request() raises
\* TimeoutError only if the child is still running at the poll() that follows
\* the timeout; if the child has exited by then the process-exited error is
\* raised instead.  Each timed-out call leaves with exactly one of the two.
TimeoutHandled(t) == pc[t] = "r_timedout" /\ pc'[t] = "r_finally"
C32_ExitTakesPrecedenceOverTimeout ==
  [][\A t \in Threads :
       TimeoutHandled(t) =>
         /\ outcome'[t].kind \in {"TimeoutError", "ProcessExited"}
         /\ outcome'[t].kind = "TimeoutError" <=> proc # "exited"
         /\ outcome'[t].kind = "ProcessExited" <=> proc = "exited"]_vars

\* C32 witness: a call that was registered and timed out leaves with the
\* process-exited error, the child having exited while it waited.
C32_Witness ==
  \E t \in Threads :
    /\ pc[t] = "r_finally"
    /\ outcome[t].kind = "ProcessExited"
    /\ outcome[t].id = req_id[t]
    /\ req_id[t] \in DOMAIN resp_by_id
    /\ proc = "exited"

\* C32, the other case: a timed-out call leaves with TimeoutError.
C32_WitnessTimeout ==
  \E t \in Threads :
    /\ pc[t] = "r_finally"
    /\ outcome[t].kind = "TimeoutError"


\* C33: request() and notify() called when the child has already exited fail
\* with the process-exited error before they have any effect on the
\* protocol: no id is allocated, no entry is added to the response table and
\* nothing is written to the child's stdin.
NoProtocolEffect == UNCHANGED <<next_id, resp_by_id, stdin, pending, wcall>>
RequestCalled(t) == pc[t] = "idle" /\ pc'[t] # "idle"
RequestRaises(t) == pc[t] = "r_raise" /\ pc'[t] # "r_raise"
NotifyCalled == notifies' = notifies + 1
C33_CallAfterExitHasNoEffect ==
  [][/\ \A t \in Threads :
          /\ (RequestCalled(t) /\ proc = "exited") =>
                /\ pc'[t] = "r_raise"
                /\ outcome'[t].kind = "ProcessExited"
                /\ NoProtocolEffect
          /\ RequestRaises(t) =>
                /\ pc'[t] = "idle"
                /\ NoProtocolEffect
     /\ (NotifyCalled /\ proc = "exited") =>
          /\ npc' = "idle"
          /\ NoProtocolEffect]_vars

\* C33 witness: a request() called after the exit is about to raise the
\* process-exited error, while an earlier message stands in the child's
\* stdin and the id counter has moved on.
C33_Witness ==
  \E t \in Threads :
    /\ proc = "exited"
    /\ pc[t] = "r_raise"
    /\ outcome[t].kind = "ProcessExited"
    /\ req_id[t] = 0
    /\ t \notin {resp_by_id[i] : i \in DOMAIN resp_by_id}
    /\ stdin # <<>>
    /\ next_id > 1

\* C33, notify(): a notify() made after the exit has returned and none of
\* its bytes is in the child's stdin.
C33_WitnessNotify ==
  /\ proc = "exited"
  /\ notifies = 1
  /\ npc = "idle"
  /\ stdin = <<>>
  /\ pending = <<>>


\* C34: a response that arrives after its request timed out and was
\* deregistered is dropped as an unknown id and never handed to a later
\* request: when the reader takes a response whose id is the id of a request
\* that timed out and was deregistered, and no request that has been sent
\* and is still outstanding bears that id (so the line can only answer the
\* request that timed out), the reader drops the line.
Outstanding(t) == pc[t] \in {"r_wait", "r_timedout", "r_finally"}
LateResponse(line) ==
  /\ Classify(line) = "lookup"
  /\ line.id \in expired
  /\ \A t \in Threads : ~(Outstanding(t) /\ req_id[t] = line.id)
ReaderTakesLine == rpc = "read" /\ stdout # <<>> /\ stdout' = Tail(stdout)
C34_LateResponseIsDropped ==
  [][(ReaderTakesLine /\ LateResponse(Head(stdout))) => rpc' = "log"]_vars


\* C35: the stdout reader never blocks for good while it delivers a
\* response: whenever it stands at q.put(msg) it gets back to reading (or to
\* the end of the stream), whatever the request does meanwhile and however
\* many responses bear the same id.
C35_ReaderReturnsToReading == (rpc = "put") ~> (rpc # "put")


\* C36: every run_task of an MCP runner calls mcp.stop() exactly once on
\* every path (after an answer, after a failure of mcp.start(), after a
\* failure out of run_mcp_conversation), never more than once while it runs,
\* and metrics.finalize() is reached only when the conversation returned an
\* answer.
Calls(log, name) == Cardinality({i \in 1 .. Len(log) : log[i] = name})
C36_StopOnceOnEveryPath ==
  /\ Calls(ulog, "stop") <= 1
  /\ Calls(ulog, "finalize") > 0 => uanswer
  /\ upc \in {"finalize", "leave"} => Calls(ulog, "stop") = 1
  /\ \A i \in 1 .. Len(uret) :
        /\ Calls(uret[i].log, "stop") = 1
        /\ Calls(uret[i].log, "finalize") > 0 =>
              (uret[i].answer /\ uret[i].raised = "none")

\* C36 witness: one run_task has left by the failure of mcp.start() and the
\* next by a failure of the conversation, each with its one stop().
C36_Witness ==
  /\ Len(uret) = 2
  /\ uret[1].raised = "start"
  /\ uret[1].log = <<"start", "stop">>
  /\ uret[2].raised = "conversation"
  /\ uret[2].log = <<"start", "conversation", "stop">>

\* C36, the normal path: the answer, one stop(), then finalize().
C36_WitnessAnswer ==
  /\ Len(uret) > 0
  /\ uret[1].raised = "none"
  /\ uret[1].log = <<"start", "conversation", "stop", "finalize">>


\* C37: when the conversation has returned, the tool-call count recorded in
\* every Turn equals the number of dispatches performed in that turn (the
\* results of the turn's call_tool invocations, one per invocation, stand in
\* the message appended after the turn's response), so that total_tool_calls,
\* the sum finalize() takes over the Turns, equals the number of call_tool
\* invocations.
IsResults(m) == m.kind = "tool_results"
ResultsMessages == SelectSeq(messages, IsResults)
DispatchesOfTurn(i) ==
  IF i <= Len(ResultsMessages) THEN Len(ResultsMessages[i].results) ELSE 0
C37_TurnCountsDispatches ==
  dpc = "done" =>
    /\ \A i \in 1 .. Len(turns) : turns[i].tool_calls = DispatchesOfTurn(i)
    /\ Sum([i \in 1 .. Len(turns) |-> turns[i].tool_calls])
         = Sum([i \in 1 .. Len(ResultsMessages) |->
                  Len(ResultsMessages[i].results)])


\* C38: in the Gemini driver every Turn lists the names of the tools the
\* response requested, in the order it requested them, and counts as many
\* tool calls as it lists names; so when the conversation has returned, the
\* counts finalize() gathers in tool_usage add up to total_tool_calls.
IsResponse(m) == m.kind = "response"
ResponseMessages == SelectSeq(messages, IsResponse)
RequestedNames(i) ==
  IF i <= Len(ResponseMessages)
    THEN CallNames(ToolUseBlocks(ResponseMessages[i].content))
    ELSE <<>>
RECURSIVE UsageTotal(_)
UsageTotal(usage) ==
  IF DOMAIN usage = {}
    THEN 0
    ELSE LET name == CHOOSE k \in DOMAIN usage : TRUE
         IN  usage[name]
               + UsageTotal([k \in DOMAIN usage \ {name} |-> usage[k]])
C38_UsageMatchesToolCalls ==
  driver = "gemini" =>
    /\ \A i \in 1 .. Len(turns) :
          /\ Len(turns[i].tools_called) = turns[i].tool_calls
          /\ turns[i].tools_called = RequestedNames(i)
    /\ dpc = "done" =>
          UsageTotal(TallyTurns(turns, UsageReset(tool_usage)))
            = Sum([i \in 1 .. Len(turns) |-> turns[i].tool_calls])

\* C38 witness: a Gemini conversation has returned after two turns of two
\* tool calls each; one name was requested in both turns.
C38_Witness ==
  /\ driver = "gemini"
  /\ dpc = "done"
  /\ Len(turns) = 3
  /\ turns[1].tools_called = <<2, 3>>
  /\ turns[2].tools_called = <<3, 1>>
  /\ TallyTurns(turns, UsageReset(tool_usage))[3] = 2


\* C39: with a budget N <= 0 the loop body never runs: the driver never
\* calls the model with tools and never dispatches a tool; the one call it
\* makes is the call without tools, made with the instruction to answer as
\* the last message, and a conversation that has returned has recorded one
\* Turn, numbered N, with no tool calls.
C39_NoBudgetOnlyFinalCall ==
  max_turns <= 0 =>
    /\ Len(model_calls) <= 1
    /\ \A i \in 1 .. Len(model_calls) :
          /\ ~model_calls[i].tools
          /\ model_calls[i].messages = Len(messages)
          /\ messages[Len(messages)] = FinalInstruction
    /\ dpc \in {"start", "final", "in_final", "done", "raised"}
    /\ \A op \in running : op.op # "tool"
    /\ payloads = <<>> /\ tool_results = <<>>
    /\ ResultsMessages = <<>>
    /\ Len(turns) <= 1
    /\ dpc = "done" =>
          /\ Len(model_calls) = 1
          /\ Len(turns) = 1
          /\ turns[1].turn = max_turns
          /\ turns[1].tool_calls = 0
          /\ messages = <<[role |-> "user", kind |-> "task"], FinalInstruction>>

\* C39 witness: a conversation with the budget -1 has returned its answer
\* after its one call.
C39_Witness ==
  /\ max_turns = -1
  /\ dpc = "done"
  /\ answer.has
  /\ Len(model_calls) = 1
  /\ turns[1].turn = -1

\* C39, the budget 0.
C39_WitnessZero ==
  /\ max_turns = 0
  /\ dpc = "done"
  /\ Len(model_calls) = 1
  /\ turns[1].turn = 0


\* C40: every command of the smoke harness calls client.close() exactly once
\* on every path out of it, never twice; the smoke command attempts
\* shutdown-browser only with a session id in hand and before close(), and
\* a failed shutdown-browser is still followed by close().
C40_CloseOnceOnEveryPath ==
  /\ Calls(cmd_log, "close") <= 1
  /\ mpc = "left" => Calls(cmd_log, "close") = 1
  /\ Calls(cmd_log, "shutdown-browser") > 0 =>
        /\ cmd = "smoke"
        /\ session_id # "None"
        /\ cmd_log[1] = "shutdown-browser"
        /\ Calls(cmd_log, "shutdown-browser") = 1

=============================================================================
